---- MODULE Spec2Model ----
(***************************************************************************)
(* NebulaCut timeline editor (src/src/App.tsx): the project data model     *)
(* (assets, tracks, clips), the clip edit engine (insert, delete, split,   *)
(* inspector edits, pointer drag move / trim-start / trim-end), the        *)
(* playhead, the zoom range, the audio elements and the video output of    *)
(* the playback, the project load and the file and remote imports.         *)
(*                                                                         *)
(* Time is counted in ticks of 1/TicksPerSecond second, so that            *)
(* MIN_CLIP_DURATION = 0.2 s is 2 ticks.  Pointer x coordinates are        *)
(* counted in 1/PxScale pixel.  pixelsPerSecond is an exact rational       *)
(* <<numerator, denominator>>.  A pointer event is modelled only for the   *)
(* x values whose time (x / pixelsPerSecond) is a whole number of ticks.   *)
(* Generated ids (crypto.randomUUID) are modelled by the least positive    *)
(* integer that occurs nowhere in the state; 0 stands for null.            *)
(***************************************************************************)
EXTENDS Integers, Sequences, FiniteSets, TLC

VARIABLES assets, tracks, clips, selectedClipId, playhead, isPlaying,
          pixelsPerSecond, statusMessage, dragState, audioElements, video,
          projectFile, loadJob, importJob, lastOp, edits

vars == <<assets, tracks, clips, selectedClipId, playhead, isPlaying,
          pixelsPerSecond, statusMessage, dragState, audioElements, video,
          projectFile, loadJob, importJob, lastOp, edits>>

(* ------------------------------ units --------------------------------- *)
TicksPerSecond == 10
PxScale == 2

(* ------------------------- program constants -------------------------- *)
MIN_CLIP_DURATION == 2
EMPTY_TIMELINE_DURATION == 120
DEFAULT_IMAGE_DURATION == 50
TIMELINE_ZOOM_HARD_MIN == 8
TIMELINE_ZOOM_HARD_MAX == 640
TIMELINE_ZOOM_EMPTY_MIN == 40
TIMELINE_ZOOM_EMPTY_MAX == 160
DEFAULT_TIMELINE_ZOOM == 75
POSITIVE_INFINITY == 1000000000
OneSecond == 10
TrimEndImageCeiling == 36000
GainDefault == 100
GainMax == 150

(* ------------------------------ bounds -------------------------------- *)
MaxAssets == 1
MaxClips == 2
MaxTracks == 2
MaxEdits == 1

(* ----------------------------- helpers -------------------------------- *)
Max(a, b) == IF a >= b THEN a ELSE b
Min(a, b) == IF a <= b THEN a ELSE b

\* Math.min(Math.max(value, min), max)
clamp(value, min, max) == Min(Max(value, min), max)

RECURSIVE Gcd(_, _)
Gcd(a, b) == IF b = 0 THEN a ELSE Gcd(b, a % b)

\* exact rationals <<n, d>> with d > 0, in lowest terms
Rat(n, d) == LET g == Gcd(IF n < 0 THEN -n ELSE n, d)
             IN  IF g = 0 THEN <<0, 1>> ELSE <<n \div g, d \div g>>
RInt(k) == <<k, 1>>
RLe(a, b) == a[1] * b[2] <= b[1] * a[2]
RLt(a, b) == a[1] * b[2] < b[1] * a[2]
RMax(a, b) == IF RLe(b, a) THEN a ELSE b
RMin(a, b) == IF RLe(a, b) THEN a ELSE b
RAdd(a, b) == Rat(a[1] * b[2] + b[1] * a[2], a[2] * b[2])
RClamp(value, min, max) == RMin(RMax(value, min), max)

Range(s) == {s[i] : i \in 1..Len(s)}

RECURSIVE SeqMax(_, _)
\* array.reduce((acc, x) => Math.max(acc, x), init)
SeqMax(s, init) == IF s = <<>> THEN init
                   ELSE SeqMax(Tail(s), Max(init, Head(s)))

(* ------------------------------ media --------------------------------- *)
\* The files a user can import: what loadMediaAsset derives from each.
Media ==
  { [name |-> "movie", type |-> "video", duration |-> 100, hasAudio |-> TRUE],
    [name |-> "mute",  type |-> "video", duration |-> 30,  hasAudio |-> FALSE],
    [name |-> "blip",  type |-> "audio", duration |-> 5,   hasAudio |-> FALSE],
    [name |-> "tick",  type |-> "audio", duration |-> 1,   hasAudio |-> FALSE],
    [name |-> "photo", type |-> "image", duration |-> 0,   hasAudio |-> FALSE] }

NoDrag == [clipId |-> 0, mode |-> "none", startX |-> 0, startStart |-> 0,
           startOffset |-> 0, startDuration |-> 0]

(* ------------------------------- ids ---------------------------------- *)
UsedIds == {a.id : a \in Range(assets)} \cup {t.id : t \in Range(tracks)}
           \cup {c.id : c \in Range(clips)} \cup {c.trackId : c \in Range(clips)}
           \cup {c.assetId : c \in Range(clips)}
           \cup {selectedClipId, dragState.clipId, 0}

\* generateId(): an id that occurs nowhere else
generateId(taken) == CHOOSE i \in 1..(Cardinality(taken) + 1) : i \notin taken

(* --------------------------- derived state ---------------------------- *)
\* createDefaultTracks(): V1 and A1 with fresh ids
createDefaultTracks(taken) ==
  LET v == generateId(taken)
      a == generateId(taken \cup {v})
  IN  << [id |-> v, name |-> <<"V", 1>>, type |-> "video"],
         [id |-> a, name |-> <<"A", 1>>, type |-> "audio"] >>

\* assetMap = new Map(assets.map(a => [a.id, a])): the last entry of an id wins
HasAsset(as, id) == \E i \in 1..Len(as) : as[i].id = id
assetMapGet(as, id) ==
  as[CHOOSE i \in 1..Len(as) :
       as[i].id = id /\ \A j \in (i + 1)..Len(as) : as[j].id # id]

IsImageAsset(as, id) == HasAsset(as, id) /\ assetMapGet(as, id).type = "image"

\* tracks.find(t => t.id === id): the first entry of an id
HasTrack(ts, id) == \E i \in 1..Len(ts) : ts[i].id = id
trackFind(ts, id) ==
  ts[CHOOSE i \in 1..Len(ts) : ts[i].id = id /\ \A j \in 1..(i - 1) : ts[j].id # id]

\* clips.find(c => c.id === id): the first entry of an id
HasClip(cs, id) == \E i \in 1..Len(cs) : cs[i].id = id
clipFind(cs, id) ==
  cs[CHOOSE i \in 1..Len(cs) : cs[i].id = id /\ \A j \in 1..(i - 1) : cs[j].id # id]

ClipEnds(cs) == [i \in 1..Len(cs) |-> cs[i].start + cs[i].duration]

timelineDurationOf(cs) == Max(EMPTY_TIMELINE_DURATION, SeqMax(ClipEnds(cs), 0))
timelineDuration == timelineDurationOf(clips)
effectivePlayhead == Min(playhead, timelineDuration)

selectedClipPresent == HasClip(clips, selectedClipId)
selectedClip == clipFind(clips, selectedClipId)

\* variant: a zoom range without the hard limits
getTimelineZoomRangeIn_unclamped(cs, unit) ==
  IF Len(cs) = 0
  THEN [min |-> RInt(TIMELINE_ZOOM_EMPTY_MIN), max |-> RInt(TIMELINE_ZOOM_EMPTY_MAX)]
  ELSE
    LET maxTimelineEnd ==
          SeqMax(ClipEnds(cs), (EMPTY_TIMELINE_DURATION * unit) \div TicksPerSecond)
        pos == {d \in {cs[i].duration : i \in 1..Len(cs)} : d > 0}
        minClipDuration ==
          IF pos = {} THEN (MIN_CLIP_DURATION * unit) \div TicksPerSecond
          ELSE CHOOSE d \in pos : \A e \in pos : d <= e
    IN  [min |-> RMax(Rat(360 * unit, maxTimelineEnd), Rat(2 * unit, minClipDuration)),
         max |-> RMax(Rat(320 * unit, minClipDuration), RInt(TIMELINE_ZOOM_EMPTY_MAX))]

\* variant: an upper bound that gives the shortest clip 160 px
getTimelineZoomRangeIn_halfWidth(cs, unit) ==
  IF Len(cs) = 0
  THEN [min |-> RInt(TIMELINE_ZOOM_EMPTY_MIN), max |-> RInt(TIMELINE_ZOOM_EMPTY_MAX)]
  ELSE
    LET maxTimelineEnd ==
          SeqMax(ClipEnds(cs), (EMPTY_TIMELINE_DURATION * unit) \div TicksPerSecond)
        pos == {d \in {cs[i].duration : i \in 1..Len(cs)} : d > 0}
        minClipDuration ==
          IF pos = {} THEN (MIN_CLIP_DURATION * unit) \div TicksPerSecond
          ELSE CHOOSE d \in pos : \A e \in pos : d <= e
        minByTimeline == Rat(360 * unit, maxTimelineEnd)
        minByShortestClip == Rat(2 * unit, minClipDuration)
        min0 == RClamp(RMax(minByTimeline, minByShortestClip),
                       RInt(TIMELINE_ZOOM_HARD_MIN), RInt(120))
        max0 == RClamp(Rat(160 * unit, minClipDuration),
                       RInt(TIMELINE_ZOOM_EMPTY_MAX), RInt(TIMELINE_ZOOM_HARD_MAX))
        widen == RLt(max0, RAdd(min0, RInt(20)))
        max1 == IF widen
                THEN RClamp(RAdd(min0, RInt(20)),
                            RInt(TIMELINE_ZOOM_EMPTY_MAX), RInt(TIMELINE_ZOOM_HARD_MAX))
                ELSE max0
        min1 == IF widen /\ RLe(max1, min0)
                THEN RMax(RInt(TIMELINE_ZOOM_HARD_MIN), RAdd(max1, RInt(-20)))
                ELSE min0
    IN  [min |-> min1, max |-> max1]

\* getTimelineZoomRange(clips), in pixels per second, for clips whose times
\* are counted in 1/unit second
getTimelineZoomRangeIn(cs, unit) ==
  IF Len(cs) = 0
  THEN [min |-> RInt(TIMELINE_ZOOM_EMPTY_MIN), max |-> RInt(TIMELINE_ZOOM_EMPTY_MAX)]
  ELSE
    LET maxTimelineEnd ==
          SeqMax(ClipEnds(cs), (EMPTY_TIMELINE_DURATION * unit) \div TicksPerSecond)
        pos == {d \in {cs[i].duration : i \in 1..Len(cs)} : d > 0}
        minClipDuration ==
          IF pos = {} THEN (MIN_CLIP_DURATION * unit) \div TicksPerSecond
          ELSE CHOOSE d \in pos : \A e \in pos : d <= e
        minByTimeline == Rat(360 * unit, maxTimelineEnd)
        minByShortestClip == Rat(2 * unit, minClipDuration)
        min0 == RClamp(RMax(minByTimeline, minByShortestClip),
                       RInt(TIMELINE_ZOOM_HARD_MIN), RInt(120))
        max0 == RClamp(Rat(320 * unit, minClipDuration),
                       RInt(TIMELINE_ZOOM_EMPTY_MAX), RInt(TIMELINE_ZOOM_HARD_MAX))
        widen == RLt(max0, RAdd(min0, RInt(20)))
        max1 == IF widen
                THEN RClamp(RAdd(min0, RInt(20)),
                            RInt(TIMELINE_ZOOM_EMPTY_MAX), RInt(TIMELINE_ZOOM_HARD_MAX))
                ELSE max0
        min1 == IF widen /\ RLe(max1, min0)
                THEN RMax(RInt(TIMELINE_ZOOM_HARD_MIN), RAdd(max1, RInt(-20)))
                ELSE min0
    IN  [min |-> min1, max |-> max1]

\* getTimelineZoomRange(clips) on the clips of the model, counted in ticks
getTimelineZoomRange(cs) == getTimelineZoomRangeIn(cs, TicksPerSecond)

\* trackOrder: the index of each track id (the last entry of an id wins)
trackOrderGet(ts, id) ==
  IF HasTrack(ts, id)
  THEN (CHOOSE i \in 1..Len(ts) :
          ts[i].id = id /\ \A j \in (i + 1)..Len(ts) : ts[j].id # id) - 1
  ELSE 0

\* the time test of activeVisualClip and activeAudioClips
coversPlayhead(clip, t) == t >= clip.start /\ t < clip.start + clip.duration

NoClip == [id |-> 0, trackId |-> 0, assetId |-> 0, start |-> 0, offset |-> 0,
           duration |-> 0, gain |-> 0]

\* activeVisualClip: filter, stable sort by track order, last element
visualCandidates(cs, ts, t) ==
  SelectSeq(cs, LAMBDA c : /\ HasTrack(ts, c.trackId)
                           /\ trackFind(ts, c.trackId).type = "video"
                           /\ coversPlayhead(c, t))
activeVisualClipOf(cs, ts, t) ==
  LET active == visualCandidates(cs, ts, t)
      key(i) == trackOrderGet(ts, active[i].trackId)
  IN  IF Len(active) = 0 THEN NoClip
      ELSE active[CHOOSE i \in 1..Len(active) :
                    /\ \A j \in 1..Len(active) : key(j) <= key(i)
                    /\ \A j \in (i + 1)..Len(active) : key(j) < key(i)]
activeVisualClip == activeVisualClipOf(clips, tracks, effectivePlayhead)

\* variant: no re-clamp of the zoom after a change of the clips
reclampZoom_never(oldClips, newClips, pps) == pps

\* the effect that re-clamps the zoom when the derived range changed
reclampZoom(oldClips, newClips, pps) ==
  LET old == getTimelineZoomRange(oldClips)
      new == getTimelineZoomRange(newClips)
  IN  IF new = old THEN pps ELSE RClamp(pps, new.min, new.max)

\* pointer distance dx (in 1/PxScale px) / pixelsPerSecond, in ticks
TimeIsExact(dx, pps) == (dx * TicksPerSecond * pps[2]) % (PxScale * pps[1]) = 0
TimeOf(dx, pps) ==
  LET n == dx * TicksPerSecond * pps[2]
      d == PxScale * pps[1]
  IN  IF n >= 0 THEN n \div d ELSE -((-n) \div d)

(* ------------------------- audio playback ----------------------------- *)
\* activeAudioClips: the clips of audio tracks with playable audio under the
\* playhead, in list order
\* variant: any asset on an audio track counts as audible
hasPlayableAudio_anyAsset(as, clip) == HasAsset(as, clip.assetId)

hasPlayableAudio(as, clip) ==
  /\ HasAsset(as, clip.assetId)
  /\ LET asset == assetMapGet(as, clip.assetId)
     IN  asset.type = "audio" \/ (asset.type = "video" /\ asset.hasAudioTrack)
activeAudioClipsOf(cs, ts, as, t) ==
  SelectSeq(cs, LAMBDA c : /\ HasTrack(ts, c.trackId)
                           /\ trackFind(ts, c.trackId).type = "audio"
                           /\ hasPlayableAudio(as, c)
                           /\ coversPlayhead(c, t))
activeAudioClips == activeAudioClipsOf(clips, tracks, assets, effectivePlayhead)

\* audioElementsRef.current: clip id -> HTMLAudioElement (its volume in
\* hundredths, whether it is playing, and which element object it is: the
\* elements of a cache are numbered in the order of their creation)
EmptyAudioElements ==
  [id \in {} |-> [volume |-> 100, playing |-> FALSE, element |-> 0]]
NewAudio(cache) ==
  [volume |-> 100, playing |-> FALSE, element |-> Cardinality(DOMAIN cache) + 1]

\* variant: an effect that makes a new element for a clip on every run
audioFor_alwaysNew(cache, clip) == NewAudio(cache)

\* the cached element of the clip, or a new one
audioFor(cache, clip) ==
  IF clip.id \in DOMAIN cache THEN cache[clip.id] ELSE NewAudio(cache)

\* audio.volume = v throws unless 0 <= v <= 1
volumeAccepted(gain) == gain >= 0 /\ gain <= 100

\* which assets of active audio clips the effect creates elements for
audioEffectSkips(as, clip) ==
  ~HasAsset(as, clip.assetId) \/ assetMapGet(as, clip.assetId).type # "audio"

\* variant: an effect without the first loop
pauseInactive_none(cache, active, playing) == cache

\* the first loop of the effect: pause what is not active, or all when stopped
pauseInactive(cache, active, playing) ==
  LET activeIds == {active[i].id : i \in 1..Len(active)}
  IN  [id \in DOMAIN cache |->
         IF id \notin activeIds \/ ~playing
         THEN [cache[id] EXCEPT !.playing = FALSE] ELSE cache[id]]

\* the second loop, from the i-th active clip on; a throwing volume
\* assignment ends the effect
RECURSIVE syncActive(_, _, _, _, _)
syncActive(cache, active, as, playing, i) ==
  IF i > Len(active) THEN cache
  ELSE
    LET clip == active[i]
    IN  IF audioEffectSkips(as, clip)
        THEN syncActive(cache, active, as, playing, i + 1)
        ELSE
          LET audio == audioFor(cache, clip)
              withAudio == [id \in DOMAIN cache \cup {clip.id} |->
                              IF id = clip.id THEN audio ELSE cache[id]]
          IN  IF ~volumeAccepted(clip.gain) THEN withAudio
              ELSE syncActive(
                     [withAudio EXCEPT ![clip.id] =
                        [audio EXCEPT !.volume = clip.gain, !.playing = playing]],
                     active, as, playing, i + 1)

\* the audio effect, run on the committed state
audioEffect(cache, cs, ts, as, t, playing) ==
  LET active == activeAudioClipsOf(cs, ts, as, t)
  IN  syncActive(pauseInactive(cache, active, playing), active, as, playing, 1)

(* ---------------------------- video output ---------------------------- *)
\* the <video> element and the two refs beside it: owner is
\* activeVideoClipRef (0 for null), pending is pendingVideoSeekRef (<<>> for
\* null), src is the asset whose URL is loaded (0 for none), ready is whether
\* the element has reported metadata since the last load(), time is
\* currentTime, playing is !paused, deps is the dependency list the video
\* effect ran with last
IdleVideo == [owner |-> 0, pending |-> <<>>, src |-> 0, ready |-> FALSE,
              time |-> 0, playing |-> FALSE,
              deps |-> <<NoClip, "", 0, FALSE>>]

Abs(d) == IF d < 0 THEN -d ELSE d

\* activeVisualClip with an asset of type video
isVideoClip(as, clip) ==
  clip # NoClip /\ HasAsset(as, clip.assetId)
                /\ assetMapGet(as, clip.assetId).type = "video"

\* variant: a release that forgets to reset activeVideoClipRef
releaseVideo_keepsOwner(vid) ==
  [vid EXCEPT !.src = 0, !.ready = FALSE, !.time = 0, !.playing = FALSE]

\* the branch without an active video clip: the owner is reset, then pause,
\* removeAttribute("src"), load()
releaseVideo(vid) ==
  [vid EXCEPT !.owner = 0, !.src = 0, !.ready = FALSE, !.time = 0,
              !.playing = FALSE]

\* Math.abs(video.currentTime - targetTime) > 0.25
outOfSync(time, targetTime) == 4 * Abs(time - targetTime) > TicksPerSecond

\* the video effect, for the active visual clip of the render
videoEffect(vid, clip, as, t, playing) ==
  LET targetTime == clip.offset + (t - clip.start)
      synced == IF vid.owner # clip.id
                THEN [vid EXCEPT !.owner = clip.id, !.pending = <<targetTime>>,
                                 !.src = clip.assetId, !.ready = FALSE,
                                 !.time = 0]
                ELSE IF outOfSync(vid.time, targetTime)
                THEN [vid EXCEPT !.time = targetTime]
                ELSE vid
  IN  IF ~isVideoClip(as, clip) THEN releaseVideo(vid)
      ELSE [synced EXCEPT !.playing = playing]

\* the dependencies of the video effect: activeVisualAsset, activeVisualClip,
\* effectivePlayhead, isPlaying
videoDeps(clip, as, t, playing) ==
  <<clip,
    IF HasAsset(as, clip.assetId) THEN assetMapGet(as, clip.assetId).type ELSE "",
    t, playing>>

\* the element plays on by itself between two frames of the clock, up to the
\* end of its medium
videoPlays(vid, as, delta) ==
  IF vid.playing /\ vid.ready /\ HasAsset(as, vid.src)
  THEN [vid EXCEPT !.time = Min(@ + delta, Max(@, assetMapGet(as, vid.src).duration))]
  ELSE vid

\* variant: a replace that leaves the two refs as they are
replaceVideo_keepsRefs(vid) == vid

\* replaceProjectState: activeVideoClipRef and pendingVideoSeekRef are reset
replaceVideo(vid) == [vid EXCEPT !.owner = 0, !.pending = <<>>]

(* --------------------------- history ---------------------------------- *)
coreVars == <<assets, tracks, clips, selectedClipId, playhead, isPlaying,
              pixelsPerSecond, statusMessage, dragState>>

\* the commit of a handler: the audio effect runs on the new state, starting
\* from the given element cache; the video effect runs from the given video
\* output when one of its dependencies changed or the project was replaced;
\* lastOp names the last operation that changed the state
CommitFrom(name, cache, vid, replaced) ==
  \E t \in {Min(playhead', timelineDurationOf(clips'))} :
  \E clip \in {activeVisualClipOf(clips', tracks', t)} :
  \E deps \in {videoDeps(clip, assets', t, isPlaying')} :
  \E before \in {vid} :
      /\ audioElements' = audioEffect(cache, clips', tracks', assets', t, isPlaying')
      /\ video' = IF replaced \/ deps # before.deps
                  THEN [videoEffect(before, clip, assets', t, isPlaying')
                          EXCEPT !.deps = deps]
                  ELSE before
      /\ lastOp' = IF coreVars' = coreVars THEN lastOp ELSE [name |-> name]
Commit(name, cache) == CommitFrom(name, cache, video, FALSE)
Record(name) == Commit(name, audioElements)

\* no project file was written yet
NoFile == [kind |-> "", version |-> 0, assets |-> <<>>, tracks |-> <<>>,
           clips |-> <<>>, selectedClipId |-> 0, playhead |-> 0,
           pixelsPerSecond |-> <<0, 1>>, malformed |-> {}]

\* no load in progress; a load in progress holds the parsed file, the assets
\* decoded so far and the object URLs it created and has not revoked; stale
\* keeps the ids of the replaced assets whose object URL is still live
NoJob == [active |-> FALSE, file |-> NoFile, loaded |-> <<>>, urls |-> {},
          stale |-> {}]

\* no import in flight; an import in flight holds its kind, the files of the
\* batch or the remote source, the assets decoded so far, the fetch requests
\* answered so far and the positions in the batch whose object URL is live
\* and owned by no asset; leaked keeps the positions of the URLs that no
\* handler can reach any more
NoImport == [kind |-> "none", phase |-> "", files |-> <<>>,
             source |-> [name |-> "", file |-> "", mime |-> "", webm |-> ""],
             loaded |-> <<>>, fetches |-> <<>>, urls |-> {}, leaked |-> {}]

(* ------------------------------- Init --------------------------------- *)
Init ==
  /\ assets = <<>>
  /\ tracks = createDefaultTracks({0})
  /\ clips = <<>>
  /\ selectedClipId = 0
  /\ playhead = 0
  /\ isPlaying = FALSE
  /\ pixelsPerSecond = RInt(DEFAULT_TIMELINE_ZOOM)
  /\ statusMessage = ""
  /\ dragState = NoDrag
  /\ audioElements = EmptyAudioElements
  /\ video = IdleVideo
  /\ projectFile = NoFile
  /\ loadJob = NoJob
  /\ importJob = NoImport
  /\ lastOp = [name |-> "init"]
  /\ edits = 0

(* ------------------------------ import -------------------------------- *)
\* loadMediaAsset(file, type)
loadMediaAsset(m, type, id) ==
  [id |-> id, type |-> type, media |-> m.name,
   duration |-> IF type = "image" THEN DEFAULT_IMAGE_DURATION ELSE Max(m.duration, 0),
   hasAudioTrack |-> type = "video" /\ m.hasAudio]

\* handleImport with one file of the picker's type
Import(m) ==
  /\ Len(assets) < MaxAssets
  /\ assets' = Append(assets, loadMediaAsset(m, m.type, generateId(UsedIds)))
  /\ statusMessage' = ""
  /\ edits' = edits
  /\ UNCHANGED <<tracks, clips, selectedClipId, playhead, isPlaying,
                 pixelsPerSecond, dragState>>
  /\ UNCHANGED <<projectFile, loadJob, importJob>>
  /\ Record("import")

(* ---------------------------- insert clip ----------------------------- *)
\* createTrack(type) and ensureTrack(type)
createTrack(ts, type, id) ==
  [id |-> id,
   name |-> <<IF type = "video" THEN "V" ELSE "A",
              Cardinality({i \in 1..Len(ts) : ts[i].type = type}) + 1>>,
   type |-> type]

HasTrackOfType(ts, type) == \E i \in 1..Len(ts) : ts[i].type = type
firstTrackOfType(ts, type) ==
  ts[CHOOSE i \in 1..Len(ts) :
       ts[i].type = type /\ \A j \in 1..(i - 1) : ts[j].type # type]
ensureTrack(ts, type, id) ==
  IF HasTrackOfType(ts, type) THEN firstTrackOfType(ts, type)
  ELSE createTrack(ts, type, id)

\* variant: the first guard of handleAddClip never fires
audioToVideoForbidden_never(asset, targetTrackType) == FALSE

\* the two guards of handleAddClip
audioToVideoForbidden(asset, targetTrackType) ==
  targetTrackType = "video" /\ asset.type = "audio"
onlyAudioOnAudioTrack(asset, targetTrackType) ==
  /\ targetTrackType = "audio"
  /\ asset.type # "audio"
  /\ ~(asset.type = "video" /\ asset.hasAudioTrack)

\* Math.max(asset.duration || 1, 1), or the image default
baseDuration(asset) ==
  IF asset.type = "image" THEN DEFAULT_IMAGE_DURATION
  ELSE Max(IF asset.duration = 0 THEN OneSecond ELSE asset.duration, OneSecond)

trackEndOf(cs, trackId) ==
  SeqMax(ClipEnds(SelectSeq(cs, LAMBDA c : c.trackId = trackId)), 0)

\* variant: no companion audio clip
needsCompanion_never(asset, targetTrackType) == FALSE
needsCompanion(asset, targetTrackType) ==
  targetTrackType = "video" /\ asset.type = "video" /\ asset.hasAudioTrack

handleAddClip(asset, targetTrackType) ==
  /\ edits' = edits
  /\ IF audioToVideoForbidden(asset, targetTrackType)
     THEN /\ statusMessage' = "errors.audioToVideoForbidden"
          /\ UNCHANGED <<assets, tracks, clips, selectedClipId, playhead, isPlaying,
                         pixelsPerSecond, dragState>>
     ELSE IF onlyAudioOnAudioTrack(asset, targetTrackType)
     THEN /\ statusMessage' = "errors.onlyAudioOnAudioTrack"
          /\ UNCHANGED <<assets, tracks, clips, selectedClipId, playhead, isPlaying,
                         pixelsPerSecond, dragState>>
     ELSE
       LET id1 == generateId(UsedIds)
           id2 == generateId(UsedIds \cup {id1})
           id3 == generateId(UsedIds \cup {id1, id2})
           id4 == generateId(UsedIds \cup {id1, id2, id3})
           track == ensureTrack(tracks, targetTrackType, id1)
           tracks1 == IF HasTrackOfType(tracks, targetTrackType) THEN tracks
                      ELSE Append(tracks, track)
           nextClip == [id |-> id2, trackId |-> track.id, assetId |-> asset.id,
                        start |-> trackEndOf(clips, track.id), offset |-> 0,
                        duration |-> Max(baseDuration(asset), MIN_CLIP_DURATION),
                        gain |-> GainDefault]
           companion == needsCompanion(asset, targetTrackType)
           \* ensureTrack("audio") reads the tracks of the same render
           audioTrack == ensureTrack(tracks, "audio", id3)
           tracks2 == IF companion /\ ~HasTrackOfType(tracks, "audio")
                      THEN Append(tracks1, audioTrack) ELSE tracks1
           companionAudioClip ==
             [id |-> id4, trackId |-> audioTrack.id, assetId |-> asset.id,
              start |-> nextClip.start, offset |-> nextClip.offset,
              duration |-> nextClip.duration, gain |-> GainDefault]
           clips1 == IF companion THEN clips \o <<nextClip, companionAudioClip>>
                     ELSE Append(clips, nextClip)
       IN  /\ Len(clips1) <= MaxClips
           /\ tracks' = tracks2
           /\ clips' = clips1
           /\ selectedClipId' = nextClip.id
           /\ statusMessage' = ""
           /\ pixelsPerSecond' = reclampZoom(clips, clips1, pixelsPerSecond)
           /\ UNCHANGED <<assets, playhead, isPlaying, dragState>>
  /\ UNCHANGED <<projectFile, loadJob, importJob>>
  /\ Record("addClip")

AddClip == \E i \in 1..Len(assets), k \in {"video", "audio"} :
             handleAddClip(assets[i], k)

(* ------------------------- delete and split --------------------------- *)
handleDeleteClip ==
  /\ edits' = edits
  /\ IF selectedClipId = 0
     THEN UNCHANGED <<assets, tracks, clips, selectedClipId, playhead, isPlaying,
                      pixelsPerSecond, statusMessage, dragState>>
     ELSE LET clips1 == SelectSeq(clips, LAMBDA c : c.id # selectedClipId)
          IN  /\ clips' = clips1
              /\ selectedClipId' = 0
              /\ pixelsPerSecond' = reclampZoom(clips, clips1, pixelsPerSecond)
              /\ UNCHANGED <<assets, tracks, playhead, isPlaying, statusMessage,
                             dragState>>
  /\ UNCHANGED <<projectFile, loadJob, importJob>>
  /\ Record("deleteClip")

\* variant: the split guard with inclusive limits
splitTooClose_inclusive(clip, splitPoint) ==
  \/ splitPoint < clip.start + MIN_CLIP_DURATION
  \/ splitPoint > clip.start + clip.duration - MIN_CLIP_DURATION

\* the guard of handleSplitClip: true when the split is refused
splitTooClose(clip, splitPoint) ==
  \/ splitPoint <= clip.start + MIN_CLIP_DURATION
  \/ splitPoint >= clip.start + clip.duration - MIN_CLIP_DURATION

\* variant: the second clip keeps the whole duration
secondClipOf_fullDuration(clip, splitPoint, isImage, id) ==
  [clip EXCEPT !.id = id,
               !.start = splitPoint,
               !.offset = IF isImage THEN clip.offset
                          ELSE clip.offset + (splitPoint - clip.start)]

\* variant: the second clip's offset advances for images too
secondClipOf_alwaysShift(clip, splitPoint, isImage, id) ==
  [clip EXCEPT !.id = id,
               !.start = splitPoint,
               !.offset = clip.offset + (splitPoint - clip.start),
               !.duration = clip.duration - (splitPoint - clip.start)]

\* the second clip of a split
secondClipOf(clip, splitPoint, isImage, id) ==
  LET firstDuration == splitPoint - clip.start
  IN  [clip EXCEPT !.id = id,
                   !.start = splitPoint,
                   !.offset = IF isImage THEN clip.offset
                              ELSE clip.offset + firstDuration,
                   !.duration = clip.duration - firstDuration]

\* prev.map(c => c.id === id ? {...c, duration: firstDuration} : c).concat(second)
splitClips(cs, clip, splitPoint, second) ==
  Append([i \in 1..Len(cs) |->
            IF cs[i].id = clip.id
            THEN [cs[i] EXCEPT !.duration = splitPoint - clip.start]
            ELSE cs[i]],
         second)

handleSplitClip ==
  /\ edits' = edits
  /\ IF ~selectedClipPresent
     THEN UNCHANGED <<assets, tracks, clips, selectedClipId, playhead, isPlaying,
                      pixelsPerSecond, statusMessage, dragState>>
     ELSE IF splitTooClose(selectedClip, effectivePlayhead)
     THEN /\ statusMessage' = "errors.splitTooClose"
          /\ UNCHANGED <<assets, tracks, clips, selectedClipId, playhead, isPlaying,
                         pixelsPerSecond, dragState>>
     ELSE LET second == secondClipOf(selectedClip, effectivePlayhead,
                                     IsImageAsset(assets, selectedClip.assetId),
                                     generateId(UsedIds))
              clips1 == splitClips(clips, selectedClip, effectivePlayhead, second)
          IN  /\ Len(clips1) <= MaxClips
              /\ clips' = clips1
              /\ selectedClipId' = second.id
              /\ statusMessage' = ""
              /\ pixelsPerSecond' = reclampZoom(clips, clips1, pixelsPerSecond)
              /\ UNCHANGED <<assets, tracks, playhead, isPlaying, dragState>>
  /\ UNCHANGED <<projectFile, loadJob, importJob>>
  /\ Record("splitClip")

(* --------------------------- clip updates ----------------------------- *)
\* handleUpdateClip(clipId, patch): {...clip, ...patch} for every clip of that id
patchClip(c, patch) ==
  [f \in DOMAIN c |-> IF f \in DOMAIN patch THEN patch[f] ELSE c[f]]
handleUpdateClip(cs, clipId, patch) ==
  [i \in 1..Len(cs) |-> IF cs[i].id = clipId THEN patchClip(cs[i], patch) ELSE cs[i]]

\* commit an update of the clip list made by a drag or an inspector edit
setClips(clips1) ==
  /\ clips' = clips1
  /\ pixelsPerSecond' = reclampZoom(clips, clips1, pixelsPerSecond)

(* ------------------------------ drag ---------------------------------- *)
startDrag(clip, mode, x) ==
  /\ selectedClipId' = clip.id
  /\ dragState' = [clipId |-> clip.id, mode |-> mode, startX |-> x,
                   startStart |-> clip.start, startOffset |-> clip.offset,
                   startDuration |-> clip.duration]
  /\ edits < MaxEdits /\ edits' = edits + 1
  /\ UNCHANGED <<assets, tracks, clips, playhead, isPlaying, pixelsPerSecond,
                 statusMessage>>
  /\ UNCHANGED <<projectFile, loadJob, importJob>>
  /\ Record("startDrag")

\* asset duration as the drag sees it
dragAssetDuration(clip) ==
  IF IsImageAsset(assets, clip.assetId) THEN POSITIVE_INFINITY
  ELSE IF HasAsset(assets, clip.assetId) THEN assetMapGet(assets, clip.assetId).duration
  ELSE clip.offset + clip.duration

\* variant: a move without the floor at 0
movePatch_unfloored(ds, delta) == [start |-> ds.startStart + delta]
movePatch(ds, delta) == [start |-> Max(0, ds.startStart + delta)]

\* variant: the lower limit of a trim-start ignores the clip's start
trimStartMinDelta_offsetOnly(ds, isImageClip) ==
  IF isImageClip THEN -ds.startStart ELSE -ds.startOffset
trimStartMinDelta(ds, isImageClip) ==
  IF isImageClip THEN -ds.startStart
  ELSE Max(-ds.startStart, -ds.startOffset)
trimStartMaxDelta(ds, assetDuration) ==
  Min(ds.startDuration - MIN_CLIP_DURATION,
      assetDuration - MIN_CLIP_DURATION - ds.startOffset)
trimStartPatch(ds, delta, isImageClip, assetDuration) ==
  LET applied == clamp(delta, trimStartMinDelta(ds, isImageClip),
                       trimStartMaxDelta(ds, assetDuration))
  IN  [start |-> ds.startStart + applied,
       offset |-> IF isImageClip THEN ds.startOffset ELSE ds.startOffset + applied,
       duration |-> ds.startDuration - applied]

trimEndMinDelta(ds) == MIN_CLIP_DURATION - ds.startDuration
trimEndMaxDelta(ds, isImageClip, assetDuration) ==
  IF isImageClip THEN TrimEndImageCeiling - ds.startDuration
  ELSE assetDuration - ds.startOffset - ds.startDuration
trimEndPatch(ds, delta, isImageClip, assetDuration) ==
  LET applied == clamp(delta, trimEndMinDelta(ds),
                       trimEndMaxDelta(ds, isImageClip, assetDuration))
  IN  [duration |-> ds.startDuration + applied]

\* variant: a drag that adds the pointer distance to the clip as it is now
dragPatch_fromCurrent(ds, clip, delta) ==
  LET isImageClip == IsImageAsset(assets, clip.assetId)
      now == [ds EXCEPT !.startStart = clip.start, !.startOffset = clip.offset,
                        !.startDuration = clip.duration]
      assetDuration == dragAssetDuration(clip)
  IN  IF ds.mode = "move" THEN movePatch(now, delta)
      ELSE IF ds.mode = "trim-start"
      THEN trimStartPatch(now, delta, isImageClip, assetDuration)
      ELSE trimEndPatch(now, delta, isImageClip, assetDuration)

dragPatch(ds, clip, delta) ==
  LET isImageClip == IsImageAsset(assets, clip.assetId)
      assetDuration == dragAssetDuration(clip)
  IN  IF ds.mode = "move" THEN movePatch(ds, delta)
      ELSE IF ds.mode = "trim-start"
      THEN trimStartPatch(ds, delta, isImageClip, assetDuration)
      ELSE trimEndPatch(ds, delta, isImageClip, assetDuration)

handlePointerMove(x) ==
  /\ edits' = edits
  /\ IF dragState = NoDrag \/ ~HasClip(clips, dragState.clipId)
     THEN UNCHANGED <<assets, tracks, clips, selectedClipId, playhead, isPlaying,
                      pixelsPerSecond, statusMessage, dragState>>
     ELSE /\ TimeIsExact(x - dragState.startX, pixelsPerSecond)
          /\ LET clip == clipFind(clips, dragState.clipId)
                 delta == TimeOf(x - dragState.startX, pixelsPerSecond)
             IN  setClips(handleUpdateClip(clips, clip.id,
                                           dragPatch(dragState, clip, delta)))
          /\ UNCHANGED <<assets, tracks, selectedClipId, playhead, isPlaying,
                         statusMessage, dragState>>
  /\ UNCHANGED <<projectFile, loadJob, importJob>>
  /\ Record("pointerMove")

handlePointerUp ==
  /\ dragState' = NoDrag
  /\ edits' = edits
  /\ UNCHANGED <<assets, tracks, clips, selectedClipId, playhead, isPlaying,
                 pixelsPerSecond, statusMessage>>
  /\ UNCHANGED <<projectFile, loadJob, importJob>>
  /\ Record("pointerUp")

\* a pointercancel event during a clip drag: the window listens to pointermove
\* and pointerup only, and the timeline's onPointerCancel handler
\* (handleTimelinePointerUp) touches the scrub pointer alone
handlePointerCancel ==
  /\ lastOp' = [name |-> "pointerCancel"]
  /\ edits' = edits
  /\ UNCHANGED <<coreVars, audioElements, video, projectFile, loadJob, importJob>>

(* ---------------------------- inspector ------------------------------- *)
\* the four onChange handlers of the inspector; v is Number(event.target.value)
inspectorStartPatch(v) == [start |-> Max(0, v)]

inspectorDurationPatch(clip, v) ==
  LET next == Max(MIN_CLIP_DURATION, v)
  IN  IF IsImageAsset(assets, clip.assetId) THEN [duration |-> next]
      ELSE LET maxDuration ==
                 IF HasAsset(assets, clip.assetId)
                 THEN Max(MIN_CLIP_DURATION,
                          assetMapGet(assets, clip.assetId).duration - clip.offset)
                 ELSE next
           IN  [duration |-> Min(next, maxDuration)]

inspectorOffsetPatch(clip, v) ==
  LET next == Max(0, v)
      maxOffset == IF HasAsset(assets, clip.assetId)
                   THEN Max(0, assetMapGet(assets, clip.assetId).duration - clip.duration)
                   ELSE next
  IN  [offset |-> Min(next, maxOffset)]

inspectorGainPatch(v) == [gain |-> clamp(v, 0, GainMax)]

\* the offset field is rendered for non-image clips, the volume field on audio tracks
inspectorFieldShown(field) ==
  /\ selectedClipPresent
  /\ field = "offset" => ~IsImageAsset(assets, selectedClip.assetId)
  /\ field = "gain" => /\ HasTrack(tracks, selectedClip.trackId)
                       /\ trackFind(tracks, selectedClip.trackId).type = "audio"

inspectorPatch(field, v) ==
  IF field = "start" THEN inspectorStartPatch(v)
  ELSE IF field = "duration" THEN inspectorDurationPatch(selectedClip, v)
  ELSE IF field = "offset" THEN inspectorOffsetPatch(selectedClip, v)
  ELSE inspectorGainPatch(v)

InspectorEdit(field, v) ==
  /\ inspectorFieldShown(field)
  /\ setClips(handleUpdateClip(clips, selectedClip.id, inspectorPatch(field, v)))
  /\ edits < MaxEdits /\ edits' = edits + 1
  /\ UNCHANGED <<assets, tracks, selectedClipId, playhead, isPlaying, statusMessage,
                 dragState>>
  /\ UNCHANGED <<projectFile, loadJob, importJob>>
  /\ Record("inspector")

(* ------------------------ playhead and zoom --------------------------- *)
\* updatePlayheadFromPointer: x is event.clientX - rect.left
updatePlayheadFromPointer(x) ==
  /\ TimeIsExact(x, pixelsPerSecond)
  /\ playhead' = clamp(TimeOf(x, pixelsPerSecond), 0, timelineDuration)
  /\ edits' = edits
  /\ UNCHANGED <<assets, tracks, clips, selectedClipId, isPlaying, pixelsPerSecond,
                 statusMessage, dragState>>
  /\ UNCHANGED <<projectFile, loadJob, importJob>>
  /\ Record("scrub")

togglePlay ==
  /\ isPlaying' = ~isPlaying
  /\ edits' = edits
  /\ UNCHANGED <<assets, tracks, clips, selectedClipId, playhead, pixelsPerSecond,
                 statusMessage, dragState>>
  /\ UNCHANGED <<projectFile, loadJob, importJob>>
  /\ Record("togglePlay")

\* variant: a clock that starts over at the end of the timeline
step_looping(delta) ==
  /\ isPlaying
  /\ LET next == playhead + delta
     IN  IF next >= timelineDuration
         THEN playhead' = 0 /\ isPlaying' = TRUE
         ELSE playhead' = next /\ isPlaying' = TRUE
  /\ edits' = edits
  /\ UNCHANGED <<assets, tracks, clips, selectedClipId, pixelsPerSecond,
                 statusMessage, dragState>>
  /\ UNCHANGED <<projectFile, loadJob, importJob>>
  /\ CommitFrom("step", audioElements, videoPlays(video, assets, delta), FALSE)

\* one animation frame of the playback clock, delta ticks after the previous one
step(delta) ==
  /\ isPlaying
  /\ LET next == playhead + delta
     IN  IF next >= timelineDuration
         THEN playhead' = timelineDuration /\ isPlaying' = FALSE
         ELSE playhead' = next /\ isPlaying' = TRUE
  /\ edits' = edits
  /\ UNCHANGED <<assets, tracks, clips, selectedClipId, pixelsPerSecond,
                 statusMessage, dragState>>
  /\ UNCHANGED <<projectFile, loadJob, importJob>>
  /\ CommitFrom("step", audioElements, videoPlays(video, assets, delta), FALSE)

\* the loadedmetadata listener of the video element; the element fires the
\* event once after a load() with a source
handleLoadedMetadata ==
  /\ video.src # 0 /\ ~video.ready
  /\ video' = IF video.pending # <<>>
              THEN [video EXCEPT !.ready = TRUE, !.time = video.pending[1],
                                 !.pending = <<>>,
                                 !.playing = IF isPlaying THEN TRUE ELSE @]
              ELSE [video EXCEPT !.ready = TRUE]
  /\ edits' = edits
  /\ UNCHANGED <<coreVars, audioElements, projectFile, loadJob, importJob, lastOp>>

\* the zoom slider's onChange
zoomSlider(v) ==
  /\ pixelsPerSecond' = RClamp(RInt(v), getTimelineZoomRange(clips).min,
                               getTimelineZoomRange(clips).max)
  /\ edits' = edits
  /\ UNCHANGED <<assets, tracks, clips, selectedClipId, playhead, isPlaying,
                 statusMessage, dragState>>
  /\ UNCHANGED <<projectFile, loadJob, importJob>>
  /\ Record("zoom")

\* the "add video track" / "add audio track" buttons
addTrack(type) ==
  /\ Len(tracks) < MaxTracks
  /\ tracks' = Append(tracks, createTrack(tracks, type, generateId(UsedIds)))
  /\ edits' = edits
  /\ UNCHANGED <<assets, clips, selectedClipId, playhead, isPlaying, pixelsPerSecond,
                 statusMessage, dragState>>
  /\ UNCHANGED <<projectFile, loadJob, importJob>>
  /\ Record("addTrack")

(* --------------------------- project load ----------------------------- *)
PROJECT_FILE_KIND == "nebulacut.project"
PROJECT_FILE_VERSION == 1

MediaNamed(n) == CHOOSE m \in Media : m.name = n

FileIds(f) == {f.assets[i].id : i \in 1..Len(f.assets)}
              \cup {f.tracks[i].id : i \in 1..Len(f.tracks)}
              \cup {f.clips[i].id : i \in 1..Len(f.clips)}
              \cup {f.clips[i].trackId : i \in 1..Len(f.clips)}
              \cup {f.clips[i].assetId : i \in 1..Len(f.clips)}
              \cup {f.selectedClipId, 0}

\* A file names in `malformed` the fields whose value has the wrong type or,
\* for a number, is not finite; what the record holds for such a field is
\* not read.  The fields whose check makes parseProjectFile return null:
StrictFields ==
  {"state", "state.assets", "state.tracks", "state.clips",
   "asset.id", "asset.name", "asset.mimeType", "asset.dataUrl", "asset.type",
   "track.id", "track.name", "track.type",
   "clip.id", "clip.trackId", "clip.assetId", "clip.start", "clip.offset",
   "clip.duration", "clip.gain"}
\* the fields that parseProjectFile replaces by a default
LenientFields == {"selectedClipId", "playhead", "pixelsPerSecond", "savedAt"}

\* variant: a parse that only looks at kind and version
parseAccepts_envelopeOnly(f) ==
  f.kind = PROJECT_FILE_KIND /\ f.version = PROJECT_FILE_VERSION

\* parseProjectFile: null (FALSE here) unless kind and version match and
\* every checked field has its type
parseAccepts(f) ==
  /\ f.kind = PROJECT_FILE_KIND /\ f.version = PROJECT_FILE_VERSION
  /\ f.malformed \cap StrictFields = {}

\* what parseProjectFile returns for the UI state of an accepted file
parsedSelectedClipId(f) ==
  IF "selectedClipId" \in f.malformed THEN 0 ELSE f.selectedClipId
parsedPlayhead(f) == IF "playhead" \in f.malformed THEN 0 ELSE Max(0, f.playhead)
parsedPixelsPerSecond(f) ==
  RClamp(IF "pixelsPerSecond" \in f.malformed THEN RInt(DEFAULT_TIMELINE_ZOOM)
         ELSE f.pixelsPerSecond,
         getTimelineZoomRange(f.clips).min, getTimelineZoomRange(f.clips).max)

\* the asset loadProjectContent builds from a serialized asset
loadedAssetOf(sa) ==
  LET loaded == loadMediaAsset(MediaNamed(sa.media), sa.type, sa.id)
  IN  [loaded EXCEPT !.hasAudioTrack =
         IF Len(sa.hasAudioTrack) = 1 THEN sa.hasAudioTrack[1] ELSE loaded.hasAudioTrack]
loadedAssetsOf(f) == [i \in 1..Len(f.assets) |-> loadedAssetOf(f.assets[i])]

nextTracksOf(f) ==
  IF Len(f.tracks) > 0 THEN f.tracks ELSE createDefaultTracks(FileIds(f))

\* variant: the load filter without the reference checks
clipSurvivesLoad_anyReference(clip, trackIds, assetIds) ==
  ~(clip.start < 0 \/ clip.offset < 0 \/ clip.duration < MIN_CLIP_DURATION)

\* variant: the load filter without the duration check
clipSurvivesLoad_anyDuration(clip, trackIds, assetIds) ==
  /\ clip.trackId \in trackIds
  /\ clip.assetId \in assetIds
  /\ ~(clip.start < 0 \/ clip.offset < 0)

\* the filter of loadProjectContent
clipSurvivesLoad(clip, trackIds, assetIds) ==
  /\ clip.trackId \in trackIds
  /\ clip.assetId \in assetIds
  /\ ~(clip.start < 0 \/ clip.offset < 0 \/ clip.duration < MIN_CLIP_DURATION)
nextClipsOf(f) ==
  LET trackIds == {t.id : t \in Range(nextTracksOf(f))}
      assetIds == {sa.id : sa \in Range(f.assets)}
  IN  SelectSeq(f.clips, LAMBDA c : clipSurvivesLoad(c, trackIds, assetIds))

\* variant: a load that takes the selection of the file as it is
nextSelectedClipIdOf_asSaved(f) == parsedSelectedClipId(f)

nextSelectedClipIdOf(f) ==
  IF parsedSelectedClipId(f) # 0 /\ HasClip(nextClipsOf(f), parsedSelectedClipId(f))
  THEN parsedSelectedClipId(f) ELSE 0

\* variant: a replace that drops the previous assets with their URLs live
releaseAssets_none(prev) == {prev[i].id : i \in 1..Len(prev)}

\* setAssets((prev) => { prev.forEach((asset) => URL.revokeObjectURL(asset.url));
\* ... }): the previous assets whose URL stays live
releaseAssets(prev) == {}

\* replaceProjectState(nextState)
replaceProjectState(nextState) ==
  /\ isPlaying' = FALSE
  /\ dragState' = NoDrag
  /\ assets' = nextState.assets
  /\ tracks' = nextState.tracks
  /\ clips' = nextState.clips
  /\ selectedClipId' = nextState.selectedClipId
  /\ playhead' = Max(0, nextState.playhead)
  /\ pixelsPerSecond' = RClamp(nextState.pixelsPerSecond,
                               getTimelineZoomRange(nextState.clips).min,
                               getTimelineZoomRange(nextState.clips).max)

\* loadProjectContent, from the parse to the replace
loadProjectContent(f) ==
  /\ IF ~parseAccepts(f)
     THEN /\ statusMessage' = "project.notice.invalidFile"
          /\ UNCHANGED <<assets, tracks, clips, selectedClipId, playhead, isPlaying,
                         pixelsPerSecond, dragState>>
     ELSE /\ replaceProjectState(
               [assets |-> loadedAssetsOf(f), tracks |-> nextTracksOf(f),
                clips |-> nextClipsOf(f), selectedClipId |-> nextSelectedClipIdOf(f),
                playhead |-> parsedPlayhead(f),
                pixelsPerSecond |-> parsedPixelsPerSecond(f)])
          /\ statusMessage' = "project.notice.loaded"
  /\ loadJob' = IF parseAccepts(f)
                THEN [loadJob EXCEPT !.stale = @ \cup releaseAssets(assets)]
                ELSE loadJob
  /\ edits' = edits
  /\ UNCHANGED <<projectFile, importJob>>
  \* replaceProjectState pauses and clears the audio elements
  /\ IF parseAccepts(f)
     THEN CommitFrom("load", EmptyAudioElements, replaceVideo(video), TRUE)
     ELSE Record("load")

\* variant: a save that leaves the track list out
projectPayload_noTracks ==
  [kind |-> PROJECT_FILE_KIND, version |-> PROJECT_FILE_VERSION,
   assets |-> [i \in 1..Len(assets) |->
                 [id |-> assets[i].id, type |-> assets[i].type,
                  media |-> assets[i].media,
                  hasAudioTrack |-> <<assets[i].hasAudioTrack>>]],
   tracks |-> <<>>, clips |-> clips, selectedClipId |-> selectedClipId,
   playhead |-> playhead, pixelsPerSecond |-> pixelsPerSecond, malformed |-> {}]

\* the content handleSaveProject writes: the serialized assets and the
\* tracks, clips, selection, playhead and zoom as they are
projectPayload ==
  [kind |-> PROJECT_FILE_KIND, version |-> PROJECT_FILE_VERSION,
   assets |-> [i \in 1..Len(assets) |->
                 [id |-> assets[i].id, type |-> assets[i].type,
                  media |-> assets[i].media,
                  hasAudioTrack |-> <<assets[i].hasAudioTrack>>]],
   tracks |-> tracks, clips |-> clips, selectedClipId |-> selectedClipId,
   playhead |-> playhead, pixelsPerSecond |-> pixelsPerSecond, malformed |-> {}]

handleSaveProject ==
  /\ projectFile' = projectPayload
  /\ UNCHANGED <<loadJob, importJob>>
  /\ statusMessage' = "project.notice.saved"
  /\ edits' = edits
  /\ UNCHANGED <<assets, tracks, clips, selectedClipId, playhead, isPlaying,
                 pixelsPerSecond, dragState>>
  /\ Record("save")

\* handleOpenProject on the file that was saved last
handleOpenProject == projectFile # NoFile /\ loadProjectContent(projectFile)

(* ------------------------ the load, step by step ---------------------- *)
\* loadProjectContent awaits loadMediaAsset once per serialized asset; other
\* handlers run while it waits.  The steps below are cut at those awaits.
\* dataUrlToFile throws on a data URL without payload
hasPayload(sa) == sa.media # ""
\* the element fires loadedmetadata for media the browser can read, error
\* for the rest
decodes(sa) == \E m \in Media : m.name = sa.media

\* variant: a catch block that leaves the decoded assets' URLs alone
revokeLoaded_none(urls, n) == urls

\* the catch block of the asset loop: the URLs of the n assets decoded so
\* far are revoked
revokeLoaded(urls, n) == urls \ (1..n)

\* the onerror handler of loadMediaAsset revokes the URL it created
revokeOwn(urls, k) == urls \ {k}

\* the rest of loadProjectContent once every asset is decoded
finishLoad(f, loadedAssets) ==
  /\ replaceProjectState(
       [assets |-> loadedAssets, tracks |-> nextTracksOf(f),
        clips |-> nextClipsOf(f), selectedClipId |-> nextSelectedClipIdOf(f),
        playhead |-> parsedPlayhead(f),
        pixelsPerSecond |-> parsedPixelsPerSecond(f)])
  /\ statusMessage' = "project.notice.loaded"

\* the throw out of loadProjectContent and the catch of the open handler
failLoad(message, urls) ==
  /\ statusMessage' = message
  /\ loadJob' = [NoJob EXCEPT !.urls = urls, !.stale = loadJob.stale]
  /\ UNCHANGED <<assets, tracks, clips, selectedClipId, playhead, isPlaying,
                 pixelsPerSecond, dragState>>
  /\ Record("loadFailed")

\* handleOpenProject up to the first await of the asset loop; the open button
\* is disabled while isProjectBusy
loadBegin(f) ==
  /\ ~loadJob.active
  /\ edits' = edits
  /\ UNCHANGED <<projectFile, importJob>>
  /\ IF ~parseAccepts(f)
     THEN failLoad("project.notice.invalidFile", loadJob.urls)
     ELSE IF Len(f.assets) = 0
     THEN /\ finishLoad(f, <<>>)
          /\ loadJob' = [loadJob EXCEPT !.stale = @ \cup releaseAssets(assets)]
          /\ CommitFrom("load", EmptyAudioElements, replaceVideo(video), TRUE)
     ELSE /\ statusMessage' = ""
          /\ loadJob' = [active |-> TRUE, file |-> f, loaded |-> <<>>,
                         urls |-> loadJob.urls, stale |-> loadJob.stale]
          /\ UNCHANGED <<assets, tracks, clips, selectedClipId, playhead,
                         isPlaying, pixelsPerSecond, dragState>>
          /\ Record("loadBegin")

\* the serialized asset the load in progress turns to next
nextSerializedAsset == loadJob.file.assets[Len(loadJob.loaded) + 1]
nextAssetFails == ~hasPayload(nextSerializedAsset) \/ ~decodes(nextSerializedAsset)

\* one round of the asset loop, and the replace after the last one
loadAsset ==
  /\ loadJob.active
  /\ edits' = edits
  /\ UNCHANGED <<projectFile, importJob>>
  /\ LET f == loadJob.file
         n == Len(loadJob.loaded)
         k == n + 1
         sa == nextSerializedAsset
     IN  IF ~hasPayload(sa)
         THEN failLoad("project.notice.invalidFile", revokeLoaded(loadJob.urls, n))
         ELSE IF ~decodes(sa)
         THEN failLoad("errors.mediaMetaLoad",
                       revokeLoaded(revokeOwn(loadJob.urls \cup {k}, k), n))
         ELSE IF k = Len(f.assets)
         THEN /\ finishLoad(f, Append(loadJob.loaded, loadedAssetOf(sa)))
              \* the URLs now belong to the assets of the project
              /\ loadJob' = [NoJob EXCEPT !.urls = loadJob.urls \ (1..k),
                                          !.stale = loadJob.stale \cup
                                                    releaseAssets(assets)]
              /\ CommitFrom("load", EmptyAudioElements, replaceVideo(video), TRUE)
         ELSE /\ loadJob' = [loadJob EXCEPT !.loaded = Append(@, loadedAssetOf(sa)),
                                            !.urls = @ \cup {k}]
              /\ UNCHANGED coreVars
              /\ Record("loadAsset")

(* ----------------------- imports, step by step ----------------------- *)
\* handleImport and handleDownloadFromYouTube await loadMediaAsset and the
\* fetch; other handlers run while they wait.  The steps below are cut at
\* those awaits.  One import is in flight at a time.
importIds == {importJob.loaded[i].id : i \in 1..Len(importJob.loaded)}

\* what the catch of handleImport releases of the URLs of the batch: nothing
abandonBatch(urls, n) == urls

\* handleImport up to the first await
importBegin(files) ==
  /\ importJob.kind = "none"
  /\ Len(files) > 0
  /\ statusMessage' = ""
  /\ importJob' = [NoImport EXCEPT !.kind = "file", !.phase = "decode",
                                   !.files = files, !.leaked = importJob.leaked]
  /\ edits' = edits
  /\ UNCHANGED <<assets, tracks, clips, selectedClipId, playhead, isPlaying,
                 pixelsPerSecond, dragState>>
  /\ UNCHANGED <<projectFile, loadJob>>
  /\ Record("importBegin")

\* one round of the loop of handleImport, and setAssets after the last one
importFile ==
  /\ importJob.kind = "file"
  /\ edits' = edits
  /\ UNCHANGED <<tracks, clips, selectedClipId, playhead, isPlaying,
                 pixelsPerSecond, dragState>>
  /\ UNCHANGED <<projectFile, loadJob>>
  /\ LET n == Len(importJob.loaded)
         k == n + 1
         name == importJob.files[k]
         asset == loadMediaAsset(MediaNamed(name), MediaNamed(name).type,
                                 generateId(UsedIds \cup importIds))
     IN  IF ~decodes([media |-> name])
         THEN /\ statusMessage' = "errors.mediaMetaLoad"
              /\ importJob' =
                   [NoImport EXCEPT !.leaked = importJob.leaked \cup
                      abandonBatch(revokeOwn(importJob.urls \cup {k}, k), n)]
              /\ UNCHANGED assets
              /\ Record("importFailed")
         ELSE IF k = Len(importJob.files)
         THEN \* setAssets((prev) => [...prev, ...loaded])
              /\ assets' = assets \o Append(importJob.loaded, asset)
              /\ importJob' = [NoImport EXCEPT !.leaked = importJob.leaked]
              /\ UNCHANGED statusMessage
              /\ Record("import")
         ELSE /\ importJob' = [importJob EXCEPT !.loaded = Append(@, asset),
                                                !.urls = @ \cup {k}]
              /\ UNCHANGED <<assets, statusMessage>>
              /\ Record("importFile")

\* what a remote offers: the file yt-dlp writes by default, its type, and
\* the file a WebM preference would select
RemoteSources ==
  { [name |-> "plain",  file |-> "movie",  mime |-> "mp4",  webm |-> "movie"],
    [name |-> "codec",  file |-> "static", mime |-> "mp4",  webm |-> "movie"],
    [name |-> "opaque", file |-> "static", mime |-> "webm", webm |-> "static"] }

\* variant: a fetch handler that serves the WebM file when asked to
downloadYouTube_preferring(source, options) ==
  IF options.preferWebM
  THEN [fileName |-> source.webm, mimeType |-> "webm"]
  ELSE [fileName |-> source.file, mimeType |-> source.mime]

\* the media:downloadYouTube handler: (_event, rawUrl), the options are not
\* read and yt-dlp runs with the same arguments every time
downloadYouTube(source, options) ==
  [fileName |-> source.file, mimeType |-> source.mime]

isWebMDownload(result) == result.mimeType = "webm"

\* handleDownloadFromYouTube up to the first await
remoteBegin(source) ==
  /\ importJob.kind = "none"
  /\ statusMessage' = ""
  /\ importJob' = [NoImport EXCEPT !.kind = "remote", !.phase = "fetch",
                                   !.source = source, !.leaked = importJob.leaked]
  /\ edits' = edits
  /\ UNCHANGED <<assets, tracks, clips, selectedClipId, playhead, isPlaying,
                 pixelsPerSecond, dragState>>
  /\ UNCHANGED <<projectFile, loadJob>>
  /\ Record("remoteBegin")

\* the answer to a fetch request: the first asks for no format, the one after
\* a failed decode asks for WebM; ok is whether yt-dlp succeeded
remoteFetch(ok) ==
  /\ importJob.kind = "remote" /\ importJob.phase = "fetch"
  /\ edits' = edits
  /\ UNCHANGED <<assets, tracks, clips, selectedClipId, playhead, isPlaying,
                 pixelsPerSecond, dragState>>
  /\ UNCHANGED <<projectFile, loadJob>>
  /\ LET options == [preferWebM |-> Len(importJob.fetches) = 1]
         result == downloadYouTube(importJob.source, options)
     IN  IF ~ok
         THEN /\ statusMessage' = "youtube.notice.downloadFailed"
              /\ importJob' = [NoImport EXCEPT !.leaked = importJob.leaked]
              /\ Record("remoteFailed")
         ELSE /\ importJob' =
                   [importJob EXCEPT !.phase = "decode",
                      !.fetches = Append(@, [preferWebM |-> options.preferWebM,
                                             fileName |-> result.fileName,
                                             mimeType |-> result.mimeType])]
              /\ UNCHANGED statusMessage
              /\ Record("remoteFetch")

\* importDownloadedMedia on the last answer, and what follows its failure
remoteDecode ==
  /\ importJob.kind = "remote" /\ importJob.phase = "decode"
  /\ edits' = edits
  /\ UNCHANGED <<tracks, clips, selectedClipId, playhead, isPlaying,
                 pixelsPerSecond, dragState>>
  /\ UNCHANGED <<projectFile, loadJob>>
  /\ LET result == importJob.fetches[Len(importJob.fetches)]
     IN  IF decodes([media |-> result.fileName])
         THEN /\ assets' = Append(assets,
                     loadMediaAsset(MediaNamed(result.fileName),
                                    MediaNamed(result.fileName).type,
                                    generateId(UsedIds)))
              /\ statusMessage' = "youtube.notice.success"
              /\ importJob' = [NoImport EXCEPT !.leaked = importJob.leaked]
              /\ Record("remoteImport")
         ELSE IF Len(importJob.fetches) = 1
         THEN /\ importJob' = [importJob EXCEPT !.phase = "fetch"]
              /\ UNCHANGED <<assets, statusMessage>>
              /\ Record("remoteRetry")
         ELSE /\ statusMessage' = IF isWebMDownload(result)
                                  THEN "youtube.notice.downloadFailed"
                                  ELSE "youtube.notice.retryNeedsRestart"
              /\ importJob' = [NoImport EXCEPT !.leaked = importJob.leaked]
              /\ UNCHANGED assets
              /\ Record("remoteFailed")

\* project files: a saved project; one with dangling and too short clips; one
\* without tracks whose clip names a track id; one with a single video track;
\* one of another kind
FileClip(id, trackId, assetId, start, offset, duration, gain) ==
  [id |-> id, trackId |-> trackId, assetId |-> assetId, start |-> start,
   offset |-> offset, duration |-> duration, gain |-> gain]
FileTrack(id, n, type) ==
  [id |-> id, name |-> <<IF type = "video" THEN "V" ELSE "A", n>>, type |-> type]
FileAsset(id, type, media, hasAudioTrack) ==
  [id |-> id, type |-> type, media |-> media, hasAudioTrack |-> hasAudioTrack]

SavedFile ==
  [kind |-> PROJECT_FILE_KIND, version |-> 1,
   assets |-> << FileAsset(21, "video", "movie", <<TRUE>>),
                 FileAsset(22, "audio", "blip", <<>>) >>,
   tracks |-> << FileTrack(11, 1, "video"), FileTrack(12, 1, "audio") >>,
   clips |-> << FileClip(31, 11, 21, 30, 20, 50, 100),
                FileClip(32, 12, 21, 10, 20, 50, 80) >>,
   selectedClipId |-> 32, playhead |-> 40, pixelsPerSecond |-> <<75, 1>>,
   malformed |-> {}]
ForeignFile ==
  [kind |-> PROJECT_FILE_KIND, version |-> 1,
   assets |-> << FileAsset(21, "video", "movie", <<>>),
                 FileAsset(23, "image", "photo", <<>>) >>,
   tracks |-> << FileTrack(11, 1, "video") >>,
   clips |-> << FileClip(31, 11, 21, 0, 0, 100, 100),
                FileClip(33, 19, 21, 0, 0, 30, 100),
                FileClip(34, 11, 29, 0, 0, 30, 100),
                FileClip(35, 11, 23, 5, 0, 1, 100),
                FileClip(36, 11, 23, 30, 5, 50, 100) >>,
   selectedClipId |-> 33, playhead |-> 400, pixelsPerSecond |-> <<700, 1>>,
   malformed |-> {}]
TracklessFile ==
  [kind |-> PROJECT_FILE_KIND, version |-> 1,
   assets |-> << FileAsset(1, "audio", "tick", <<>>) >>,
   tracks |-> <<>>,
   clips |-> << FileClip(3, 2, 1, 0, 0, 10, 100) >>,
   selectedClipId |-> 0, playhead |-> 0, pixelsPerSecond |-> <<75, 1>>,
   malformed |-> {}]
ImageFile ==
  [ForeignFile EXCEPT !.selectedClipId = 36, !.playhead = 0, !.pixelsPerSecond = <<75, 1>>]
VideoOnlyFile ==
  [kind |-> PROJECT_FILE_KIND, version |-> 1,
   assets |-> << FileAsset(21, "video", "movie", <<>>) >>,
   tracks |-> << FileTrack(11, 1, "video") >>,
   clips |-> <<>>,
   selectedClipId |-> 0, playhead |-> 0, pixelsPerSecond |-> <<75, 1>>,
   malformed |-> {}]
OtherKindFile ==
  [SavedFile EXCEPT !.kind = "other.project"]
SoloFile ==
  [SavedFile EXCEPT !.clips = << FileClip(32, 12, 21, 10, 20, 50, 80) >>]

\* a file written outside the application: two clips share an id
TwinFile ==
  [SavedFile EXCEPT !.clips = << FileClip(31, 11, 21, 30, 20, 50, 100),
                                FileClip(31, 12, 21, 30, 20, 50, 100) >>,
                    !.selectedClipId = 31]
\* two video tracks; the clip on the upper one comes first in the clip list
LayerFile ==
  [kind |-> PROJECT_FILE_KIND, version |-> 1,
   assets |-> << FileAsset(23, "image", "photo", <<>>) >>,
   tracks |-> << FileTrack(11, 1, "video"), FileTrack(13, 2, "video") >>,
   clips |-> << FileClip(41, 13, 23, 0, 0, 50, 100),
                FileClip(42, 11, 23, 10, 0, 50, 100) >>,
   selectedClipId |-> 42, playhead |-> 20, pixelsPerSecond |-> <<75, 1>>,
   malformed |-> {}]
ProjectFiles == {SavedFile, ForeignFile, TracklessFile, VideoOnlyFile, OtherKindFile}
DragFiles == {SavedFile, ImageFile, SoloFile}

(* ------------------------------ inputs -------------------------------- *)
DragModes == {"move", "trim-start", "trim-end"}
TrackTypes == {"video", "audio"}
StartXs == {60}
\* at the default zoom 15 units of x are one tick
PointerXs == {-540, 15, 60, 360, 1560}
ScrubXs == {30, 45, 600}
InspectorFields == {"start", "duration", "offset", "gain"}
InspectorValues == {-10, 20, 150}
StepDeltas == {1, 200}
ZoomValues == {8, 100}

ImportOf(M) == \E m \in M : Import(m)
StartDrag == \E i \in 1..Len(clips), mode \in DragModes, x \in StartXs :
               startDrag(clips[i], mode, x)
PointerMoveOf(X) == \E x \in X : handlePointerMove(x)
InspectorOf(F, V) == \E f \in F, v \in V : InspectorEdit(f, v)
ScrubOf(X) == \E x \in X : updatePlayheadFromPointer(x)
Step == \E d \in StepDeltas : step(d)
ZoomOf(V) == \E v \in V : zoomSlider(v)
Zoom == ZoomOf(ZoomValues)
AddTrack == \E type \in TrackTypes : addTrack(type)
LoadOf(F) == \E f \in F : loadProjectContent(f)

Next ==
  \/ handleSaveProject
  \/ handleOpenProject
  \/ ImportOf(Media)
  \/ AddClip
  \/ handleDeleteClip
  \/ handleSplitClip
  \/ StartDrag
  \/ PointerMoveOf(PointerXs)
  \/ handlePointerUp
  \/ handlePointerCancel
  \/ InspectorOf(InspectorFields, InspectorValues)
  \/ ScrubOf(ScrubXs)
  \/ togglePlay
  \/ Step
  \/ Zoom
  \/ AddTrack
  \/ LoadOf(ProjectFiles)

Spec == Init /\ [][Next]_vars

\* the project structure: import, insert, delete, split, tracks and load
StructureMedia == {m \in Media : m.name = "movie"}
NextStructure ==
  \/ ImportOf(StructureMedia)
  \/ AddClip
  \/ handleDeleteClip
  \/ handleSplitClip
  \/ ScrubOf({600})
  \/ AddTrack
  \/ LoadOf(ProjectFiles)

SpecStructure == Init /\ [][NextStructure]_vars

\* insert of every kind of asset on every kind of track
InsertMedia == {m \in Media : m.name \in {"movie", "mute", "blip", "photo"}}
NextInsert ==
  \/ ImportOf(InsertMedia)
  \/ AddClip
  \/ handleDeleteClip
  \/ LoadOf(ProjectFiles)

SpecInsert == Init /\ [][NextInsert]_vars

\* audio playback: audio and companion clips under a moving playhead while the
\* gain is edited and playback is toggled
AudioMedia == {m \in Media : m.name \in {"movie", "blip"}}
AudioScrubXs == {30, 600}
AudioGains == {50, 150}
AudioStepDeltas == {40}
AudioStep == \E d \in AudioStepDeltas : step(d)
NextAudio ==
  \/ ImportOf(AudioMedia)
  \/ AddClip
  \/ InspectorOf({"gain"}, AudioGains)
  \/ ScrubOf(AudioScrubXs)
  \/ togglePlay
  \/ AudioStep
  \/ handleDeleteClip

SpecAudio == Init /\ [][NextAudio]_vars

\* the zoom range of short, long and late clip lists: a file with a clip that
\* starts after an hour and the 1 s clip of a 0.1 s sound, which a trim shortens
LongFile ==
  [SavedFile EXCEPT !.assets = << FileAsset(21, "video", "movie", <<FALSE>>),
                                 FileAsset(22, "audio", "tick", <<>>) >>,
                    !.clips = << FileClip(31, 11, 21, 36000, 0, 30, 100),
                                 FileClip(32, 12, 22, 0, 0, 10, 100) >>,
                    !.selectedClipId = 31, !.playhead = 36015,
                    !.pixelsPerSecond = <<1000, 1>>]
RangeFiles == {LongFile}
ZoomTimes == {1, 36000}
ZoomSliderValues == {8, 640}
\* 640 units left of the drag start: 40 s at 8 px/s, 0.5 s at 640 px/s
ZoomPointerXs == {-580}
NextRange ==
  \/ LoadOf(RangeFiles)
  \/ handleDeleteClip
  \/ StartDrag
  \/ PointerMoveOf(ZoomPointerXs)
  \/ handlePointerUp
  \/ InspectorOf({"start", "duration"}, ZoomTimes)
  \/ ZoomOf(ZoomSliderValues)

SpecRange == Init /\ [][NextRange]_vars

\* the zoom under every change of the clip set: a file with a short clip late
\* in the timeline and a stored zoom outside the range, then insert, delete,
\* split, drags, inspector edits and the zoom slider
LateFile ==
  [SavedFile EXCEPT !.assets = << FileAsset(21, "video", "movie", <<FALSE>>) >>,
                    !.clips = << FileClip(31, 11, 21, 500, 0, 5, 100) >>,
                    !.selectedClipId = 31, !.playhead = 502,
                    !.pixelsPerSecond = <<1000, 1>>]
ZoomFiles == {LateFile}
NextZoom ==
  \/ LoadOf(ZoomFiles)
  \/ AddClip
  \/ handleDeleteClip
  \/ handleSplitClip
  \/ StartDrag
  \/ PointerMoveOf(ZoomPointerXs)
  \/ handlePointerUp
  \/ InspectorOf({"start", "duration"}, ZoomTimes)
  \/ ZoomOf(ZoomSliderValues)

SpecZoom == Init /\ [][NextZoom]_vars

\* the parse of project files: another kind, another version, and files with
\* one field of the wrong type, loaded over a project that was edited
OtherVersionFile == [SavedFile EXCEPT !.version = 2]
ParseFields == {"clip.start", "asset.type", "state.tracks"} \cup LenientFields
MalformedFiles == {[SavedFile EXCEPT !.malformed = {x}] : x \in ParseFields}
ParseFiles == {VideoOnlyFile, SoloFile, OtherKindFile, OtherVersionFile}
              \cup MalformedFiles
ParseScrubXs == {30, 600}
NextParse ==
  \/ LoadOf(ParseFiles)
  \/ handleDeleteClip
  \/ ScrubOf(ParseScrubXs)
  \/ togglePlay
  \/ Zoom

SpecParse == Init /\ [][NextParse]_vars

\* loads of files written by the application and outside of it, over a
\* project that was edited
ExternalFile ==
  [SavedFile EXCEPT !.clips = << FileClip(37, 11, 21, -10, 0, 50, 100),
                                FileClip(31, 11, 21, 30, 20, 50, 100),
                                FileClip(33, 19, 21, 0, 0, 30, 100),
                                FileClip(38, 12, 21, 0, -5, 50, 100),
                                FileClip(35, 11, 21, 5, 0, 1, 100),
                                FileClip(34, 11, 29, 0, 0, 30, 100),
                                FileClip(32, 12, 21, 10, 90, 50, 200) >>,
                    !.selectedClipId = 37]
LoadFiles == {SavedFile, ForeignFile, TracklessFile, ExternalFile, OtherKindFile}
NextLoad ==
  \/ LoadOf(LoadFiles)
  \/ handleDeleteClip
  \/ ScrubOf(ParseScrubXs)
  \/ togglePlay
  \/ Zoom

SpecLoad == Init /\ [][NextLoad]_vars

\* save and reopen: projects built by import, insert, gain edits and deletes
\* are saved and the saved file is opened again
RoundTripMedia == {m \in Media : m.name = "movie"}
RoundTripGains == {20}
NextRoundTrip ==
  \/ ImportOf(RoundTripMedia)
  \/ AddClip
  \/ handleDeleteClip
  \/ InspectorOf({"gain"}, RoundTripGains)
  \/ handleSaveProject
  \/ handleOpenProject

SpecRoundTrip == Init /\ [][NextRoundTrip]_vars

\* loads whose assets decode one by one while the project plays and is
\* edited: a file that loads, one whose second asset the browser cannot
\* read, one whose second asset has no payload
BrokenFile ==
  [SavedFile EXCEPT !.assets = << FileAsset(21, "video", "movie", <<TRUE>>),
                                  FileAsset(22, "audio", "static", <<>>) >>]
CutOffFile ==
  [SavedFile EXCEPT !.assets = << FileAsset(21, "video", "movie", <<TRUE>>),
                                  FileAsset(22, "audio", "", <<>>) >>]
DecodeFiles == {SavedFile, BrokenFile, CutOffFile}
LoadBeginOf(F) == \E f \in F : loadBegin(f)
NextDecode ==
  \/ LoadBeginOf(DecodeFiles)
  \/ loadAsset
  \/ handleDeleteClip
  \/ togglePlay
  \/ Step

SpecDecode == Init /\ [][NextDecode]_vars

\* the selection under every handler that sets it: loads of a saved file and
\* of one whose selected clip is dropped, insert, delete, split, drag start
SelectFiles == {SavedFile, ExternalFile}
SelectDrag == \E i \in 1..Len(clips), x \in StartXs : startDrag(clips[i], "move", x)
NextSelect ==
  \/ LoadOf(SelectFiles)
  \/ AddClip
  \/ handleDeleteClip
  \/ handleSplitClip
  \/ SelectDrag
  \/ handlePointerUp

SpecSelect == Init /\ [][NextSelect]_vars

\* what is audible at the playhead: a file with a video clip, its companion,
\* a sound on each of two audio tracks and a video without sound on an audio
\* track, under scrubs, the clock, edits of the start and deletes
ActiveFile ==
  [SavedFile EXCEPT
     !.assets = << FileAsset(21, "video", "movie", <<TRUE>>),
                   FileAsset(22, "video", "mute", <<>>),
                   FileAsset(23, "audio", "blip", <<>>) >>,
     !.tracks = << FileTrack(11, 1, "video"), FileTrack(12, 1, "audio"),
                   FileTrack(13, 2, "audio") >>,
     !.clips = << FileClip(31, 11, 21, 10, 20, 50, 100),
                  FileClip(32, 12, 21, 10, 20, 50, 100),
                  FileClip(33, 12, 22, 30, 0, 30, 100),
                  FileClip(34, 13, 23, 38, 0, 5, 100),
                  FileClip(35, 12, 23, 0, 0, 5, 80) >>,
     !.selectedClipId = 34, !.playhead = 0]
ActiveFiles == {ActiveFile}
ActiveScrubXs == {30, 600}
NextActive ==
  \/ LoadOf(ActiveFiles)
  \/ ScrubOf(ActiveScrubXs)
  \/ togglePlay
  \/ Step
  \/ InspectorOf({"start"}, {20, 150})
  \/ handleDeleteClip

SpecActive == Init /\ [][NextActive]_vars

\* the zoom after a load: a file zoomed out to 8 px/s whose clip of 0.1 s is
\* dropped by the load, next to a saved file
WideFile ==
  [SavedFile EXCEPT !.clips = << FileClip(31, 11, 21, 200, 0, 50, 100),
                                FileClip(35, 11, 21, 5, 0, 1, 100) >>,
                    !.selectedClipId = 31,
                    !.pixelsPerSecond = <<8, 1>>]
ReloadFiles == {WideFile, SavedFile}
NextReload ==
  \/ LoadOf(ReloadFiles)
  \/ handleDeleteClip
  \/ ScrubOf(ParseScrubXs)
  \/ togglePlay
  \/ Zoom

SpecReload == Init /\ [][NextReload]_vars

\* the imports, file and remote, with a project load running beside them
ImportBatches == {<<"blip">>, <<"tick", "static">>, <<"movie", "blip">>}
ImportFiles == {SoloFile}
ImportBatch == \E files \in ImportBatches :
                 Len(assets) + Len(files) <= MaxAssets + 1 /\ importBegin(files)
RemoteBegin == \E source \in RemoteSources :
                 Len(assets) <= MaxAssets /\ remoteBegin(source)
RemoteFetch == \E ok \in BOOLEAN : remoteFetch(ok)
NextImport ==
  \/ ImportBatch
  \/ importFile
  \/ RemoteBegin
  \/ RemoteFetch
  \/ remoteDecode
  \/ LoadBeginOf(ImportFiles)
  \/ loadAsset
  \/ handleDeleteClip

SpecImport == Init /\ [][NextImport]_vars

\* the video output: a project with two clips of one video and a clip of an
\* image on the video track and a sound on the audio track; the playhead
\* of the file lies in the first clip
VideoFile ==
  [SavedFile EXCEPT
     !.assets = << FileAsset(21, "video", "movie", <<TRUE>>),
                   FileAsset(22, "audio", "blip", <<>>),
                   FileAsset(23, "image", "photo", <<>>) >>,
     !.clips = << FileClip(31, 11, 21, 10, 20, 50, 100),
                  FileClip(34, 11, 21, 60, 0, 10, 100),
                  FileClip(33, 11, 23, 70, 0, 20, 100),
                  FileClip(32, 12, 22, 38, 0, 5, 80) >>,
     !.selectedClipId = 31]
VideoFiles == {VideoFile}
VideoScrubXs == {30, 300, 375, 915, 1200}
VideoStepDeltas == {30}
VideoStep == \E d \in VideoStepDeltas : step(d)
NextVideo ==
  \/ LoadOf(VideoFiles)
  \/ ScrubOf(VideoScrubXs)
  \/ togglePlay
  \/ VideoStep
  \/ handleLoadedMetadata
  \/ SelectDrag

SpecVideo == Init /\ [][NextVideo]_vars

\* split at the playhead, on inserted and loaded clips
SplitMedia == {m \in Media : m.name \in {"movie", "photo"}}
SplitScrubXs == {30, 45, 600, 705, 720}
NextSplit ==
  \/ ImportOf(SplitMedia)
  \/ AddClip
  \/ ScrubOf(SplitScrubXs)
  \/ handleSplitClip
  \/ LoadOf(DragFiles)

SpecSplit == Init /\ [][NextSplit]_vars

\* pointer drags on loaded clips
NextTrim ==
  \/ LoadOf(DragFiles)
  \/ StartDrag
  \/ PointerMoveOf(PointerXs)
  \/ handlePointerUp

SpecTrim == Init /\ [][NextTrim]_vars

\* drags on loaded clips while the zoom changes and clips are deleted
NextDrag ==
  \/ LoadOf(DragFiles)
  \/ StartDrag
  \/ PointerMoveOf(PointerXs)
  \/ handlePointerUp
  \/ handlePointerCancel
  \/ handleDeleteClip
  \/ Zoom

SpecDrag == Init /\ [][NextDrag]_vars

\* edits of one clip among others, on projects saved by the application and
\* on one written outside it
FrameFiles == {SavedFile, SoloFile, TwinFile}
NextFrame ==
  \/ LoadOf(FrameFiles)
  \/ StartDrag
  \/ PointerMoveOf({-540, 360})
  \/ handlePointerUp
  \/ handleDeleteClip
  \/ handleSplitClip
  \/ InspectorOf(InspectorFields, {20})

SpecFrame == Init /\ [][NextFrame]_vars

\* playback: the clock, scrubbing, and edits that change the timeline's length
PlayFiles == {SoloFile, ForeignFile}
PlayScrubXs == {30, 2400}
NextPlay ==
  \/ LoadOf(PlayFiles)
  \/ InspectorOf({"start"}, {20, 150})
  \/ handleDeleteClip
  \/ ScrubOf(PlayScrubXs)
  \/ togglePlay
  \/ Step

SpecPlay == Init /\ [][NextPlay]_vars

\* requestAnimationFrame keeps calling the clock step while isPlaying holds
SpecPlayFair == SpecPlay /\ WF_vars(Step)

\* what is shown and heard at the playhead
ViewMedia == {m \in Media : m.name \in {"photo", "movie"}}
ViewFiles == {LayerFile, SavedFile}
ViewScrubXs == {150, 600}
NextView ==
  \/ ImportOf(ViewMedia)
  \/ AddClip
  \/ StartDrag
  \/ PointerMoveOf({-540, 360})
  \/ handlePointerUp
  \/ ScrubOf(ViewScrubXs)
  \/ LoadOf(ViewFiles)

SpecView == Init /\ [][NextView]_vars

\* every edit operation on clips of short media
EditMedia == {m \in Media : m.name \in {"tick", "blip"}}
NextEdit ==
  \/ ImportOf(EditMedia)
  \/ AddClip
  \/ handleDeleteClip
  \/ ScrubOf({45})
  \/ handleSplitClip
  \/ StartDrag
  \/ PointerMoveOf(PointerXs)
  \/ handlePointerUp
  \/ InspectorOf(InspectorFields, InspectorValues)

SpecEdit == Init /\ [][NextEdit]_vars

(* ======================= properties of the claims ====================== *)
Clips == Range(clips)
NonImageBacked(c) == HasAsset(assets, c.assetId) /\ ~IsImageAsset(assets, c.assetId)

\* C1: every clip has duration >= 0.2 s and, when its asset is not an image,
\* offset >= 0 and offset + duration <= asset.duration.
C1_ClipWithinAsset ==
  \A c \in Clips :
    /\ c.duration >= MIN_CLIP_DURATION
    /\ NonImageBacked(c) =>
         /\ c.offset >= 0
         /\ c.offset + c.duration <= assetMapGet(assets, c.assetId).duration

\* C2: every clip has start >= 0.
C2_StartNonNegative == \A c \in Clips : c.start >= 0

\* C3: every clip's trackId names a track of the track list and every clip's
\* assetId names an asset of the asset list.
C3_ReferencesExist ==
  \A c \in Clips : HasTrack(tracks, c.trackId) /\ HasAsset(assets, c.assetId)

\* C3 witness: a load has dropped the clips of the file whose track or asset
\* is missing and kept the two whose references exist.
C3_Witness ==
  /\ lastOp.name = "load"
  /\ {c.id : c \in Clips} = {31, 36}
  /\ {t.id : t \in Range(tracks)} = {11}
  /\ {a.id : a \in Range(assets)} = {21, 23}

\* a step of handleSplitClip that splits the selected clip
SplitStep == handleSplitClip /\ selectedClipPresent /\ clips' # clips
splitIndex == CHOOSE i \in 1..Len(clips) : clips[i].id = selectedClipId
splitFirst == clips'[splitIndex]
splitSecond == clips'[Len(clips) + 1]

\* C4: a successful split of clip (start, duration) at T puts exactly two
\* clips in place of the original: the first spans [start, T), the second
\* [T, start + duration); the second starts where the first ends and the two
\* durations sum to the original duration; every other clip is untouched.
C4_SplitSpans ==
  [][SplitStep =>
       LET c == selectedClip
           T == effectivePlayhead
       IN  /\ Len(clips') = Len(clips) + 1
           /\ \A j \in 1..Len(clips) : j # splitIndex => clips'[j] = clips[j]
           /\ splitFirst.id = c.id /\ splitFirst.trackId = c.trackId
           /\ splitSecond.trackId = c.trackId
           /\ splitFirst.start = c.start
           /\ splitFirst.start + splitFirst.duration = T
           /\ splitSecond.start = T
           /\ splitSecond.start + splitSecond.duration = c.start + c.duration
           /\ splitFirst.duration + splitSecond.duration = c.duration]_vars

\* C4 witness: a split has produced two abutting clips of one asset on one
\* track, the second one selected.
C4_Witness ==
  /\ lastOp.name = "splitClip" /\ statusMessage = ""
  /\ \E i, j \in 1..Len(clips) :
       /\ i # j /\ clips[j].id = selectedClipId
       /\ clips[i].trackId = clips[j].trackId
       /\ clips[i].assetId = clips[j].assetId
       /\ clips[i].start + clips[i].duration = clips[j].start
       /\ clips[j].start = effectivePlayhead

\* C5: a split of the selected clip at playhead T succeeds exactly when
\* start + 0.2 < T < start + duration - 0.2, both limits strict; otherwise it
\* reports split-too-close and leaves clips, tracks and selection unchanged.
C5_SplitGuard ==
  [][(handleSplitClip /\ selectedClipPresent) =>
       LET c == selectedClip
           T == effectivePlayhead
       IN  IF c.start + MIN_CLIP_DURATION < T
              /\ T < c.start + c.duration - MIN_CLIP_DURATION
           THEN Len(clips') = Len(clips) + 1 /\ statusMessage' = ""
           ELSE /\ statusMessage' = "errors.splitTooClose"
                /\ UNCHANGED <<clips, tracks, selectedClipId>>]_vars

\* C5 witness: a split exactly 0.2 s after the clip's start was refused.
C5_Witness ==
  /\ lastOp.name = "splitClip"
  /\ statusMessage = "errors.splitTooClose"
  /\ selectedClipPresent
  /\ effectivePlayhead = selectedClip.start + MIN_CLIP_DURATION

\* C6: after a successful split at T the new clip has the track, asset and
\* gain of the original, start T, and offset offset0 + (T - start) unless the
\* asset is an image (then offset0); the original keeps start and offset; the
\* selection moves to the new clip; both clips last at least 0.2 s.
C6_SplitSecondClip ==
  [][SplitStep =>
       LET c == selectedClip
           T == effectivePlayhead
       IN  /\ \A k \in Clips : k.id # splitSecond.id
           /\ splitSecond.trackId = c.trackId
           /\ splitSecond.assetId = c.assetId
           /\ splitSecond.gain = c.gain
           /\ splitSecond.start = T
           /\ splitSecond.offset = IF IsImageAsset(assets, c.assetId) THEN c.offset
                                   ELSE c.offset + (T - c.start)
           /\ splitFirst.start = c.start /\ splitFirst.offset = c.offset
           /\ selectedClipId' = splitSecond.id
           /\ splitFirst.duration >= MIN_CLIP_DURATION
           /\ splitSecond.duration >= MIN_CLIP_DURATION]_vars

\* C6 witness: the clip of a loaded project with offset 2 s and gain 0.8,
\* starting at 1 s, was split at 4 s: the selected new clip has offset 5 s.
C6_Witness ==
  /\ lastOp.name = "splitClip" /\ statusMessage = ""
  /\ selectedClipPresent
  /\ selectedClip.start = 40 /\ selectedClip.offset = 50
  /\ selectedClip.gain = 80 /\ selectedClip.duration = 20
  /\ \E k \in Clips : k.id = 32 /\ k.start = 10 /\ k.offset = 20 /\ k.duration = 30

\* the two mismatches between an asset and the kind of the target track
audioOntoVideo(a, k) == k = "video" /\ a.type = "audio"
silentOntoAudio(a, k) ==
  k = "audio" /\ a.type # "audio" /\ ~(a.type = "video" /\ a.hasAudioTrack)

\* C7: an insert is refused as a track-kind mismatch when an audio asset
\* targets a video track, or when an asset that is neither audio nor a video
\* with an embedded audio track targets an audio track; a refused insert
\* creates no clip and no track and leaves the selection unchanged.
C7_InsertMismatch ==
  [][\A i \in 1..Len(assets), k \in TrackTypes :
       (handleAddClip(assets[i], k)
          /\ (audioOntoVideo(assets[i], k) \/ silentOntoAudio(assets[i], k)))
       => /\ statusMessage' = IF audioOntoVideo(assets[i], k)
                              THEN "errors.audioToVideoForbidden"
                              ELSE "errors.onlyAudioOnAudioTrack"
          /\ UNCHANGED <<clips, tracks, selectedClipId>>]_vars

\* C7 witness: the insert of an audio asset onto a video track was refused.
C7_Witness ==
  /\ lastOp.name = "addClip"
  /\ statusMessage = "errors.audioToVideoForbidden"
  /\ \E a \in Range(assets) : a.type = "audio"

\* a step of handleAddClip that inserts asset a on a track of kind k
InsertStep(a, k) == handleAddClip(a, k) /\ clips' # clips
insertedClip == clips'[Len(clips) + 1]

\* C8: a successful insert creates a clip on the first track of the target
\* kind, starting at the end of the clips already on that track (0 if none),
\* with offset 0 and a duration equal to the asset's duration (5 s for an
\* image) floored at 0.2 s.
C8_InsertedClip ==
  [][\A i \in 1..Len(assets), k \in TrackTypes :
       InsertStep(assets[i], k) =>
         LET a == assets[i]
             track == firstTrackOfType(tracks', k)
             ends == {c.start + c.duration : c \in {c \in Clips : c.trackId = track.id}}
         IN  /\ insertedClip.trackId = track.id
             /\ insertedClip.assetId = a.id
             /\ insertedClip.start = IF ends = {} THEN 0
                                     ELSE CHOOSE e \in ends : \A o \in ends : o <= e
             /\ insertedClip.offset = 0
             /\ insertedClip.duration =
                  Max(IF a.type = "image" THEN DEFAULT_IMAGE_DURATION ELSE a.duration,
                      MIN_CLIP_DURATION)]_vars

\* C9: inserting a video asset with an embedded audio track onto a video
\* track adds, in the same step, exactly one companion clip on an audio track
\* (created when there is none) with the asset, start, offset and duration of
\* the video clip and gain 1; any other insert adds exactly one clip.
C9_CompanionClip ==
  [][\A i \in 1..Len(assets), k \in TrackTypes :
       InsertStep(assets[i], k) =>
         LET a == assets[i]
             n == Len(clips)
         IN  IF k = "video" /\ a.type = "video" /\ a.hasAudioTrack
             THEN /\ Len(clips') = n + 2
                  /\ SubSeq(clips', 1, n) = clips
                  /\ HasTrack(tracks', clips'[n + 2].trackId)
                  /\ trackFind(tracks', clips'[n + 2].trackId).type = "audio"
                  /\ trackFind(tracks', clips'[n + 1].trackId).type = "video"
                  /\ clips'[n + 2].assetId = a.id
                  /\ clips'[n + 2].start = clips'[n + 1].start
                  /\ clips'[n + 2].offset = clips'[n + 1].offset
                  /\ clips'[n + 2].duration = clips'[n + 1].duration
                  /\ clips'[n + 2].gain = GainDefault
                  /\ clips'[n + 2].id # clips'[n + 1].id
             ELSE /\ Len(clips') = n + 1
                  /\ SubSeq(clips', 1, n) = clips]_vars

\* C9 witness: on a project with a single video track, the insert of a video
\* with sound created the audio track and put the companion clip on it.
C9_Witness ==
  /\ lastOp.name = "addClip"
  /\ Len(tracks) = 2 /\ tracks[1].id = 11 /\ tracks[2].type = "audio"
  /\ Len(clips) = 2
  /\ clips[1].trackId = 11 /\ clips[2].trackId = tracks[2].id
  /\ clips[1].assetId = clips[2].assetId
  /\ clips[1].duration = clips[2].duration

\* a pointer move at x while a trim-start drag of an existing clip is active
TrimStartStep(x) ==
  /\ handlePointerMove(x)
  /\ dragState.mode = "trim-start"
  /\ HasClip(clips, dragState.clipId)
\* d clamped to [lo, hi]
Clamped(d, lo, hi) == IF d < lo THEN lo ELSE IF d > hi THEN hi ELSE d
\* the upper limit of a trim-start: min(duration0 - 0.2, assetDuration - 0.2 - offset0)
trimStartUpper(isImage, assetDuration) ==
  IF isImage THEN dragState.startDuration - MIN_CLIP_DURATION
  ELSE Min(dragState.startDuration - MIN_CLIP_DURATION,
           assetDuration - MIN_CLIP_DURATION - dragState.startOffset)
\* the clip after a trim-start by the applied delta D
TrimmedBy(D, isImage) ==
  LET after == clipFind(clips', dragState.clipId)
  IN  /\ after.start = dragState.startStart + D
      /\ after.offset = IF isImage THEN dragState.startOffset
                        ELSE dragState.startOffset + D
      /\ after.duration = dragState.startDuration - D

TrimEndStep(x) ==
  /\ handlePointerMove(x)
  /\ dragState.mode = "trim-end"
  /\ HasClip(clips, dragState.clipId)

\* C11: the applied delta of a trim-end is d clamped to [0.2 - duration0, maxD]
\* with maxD = assetDuration - offset0 - duration0 for a non-image asset and
\* 3600 s - duration0 for an image; the clip becomes duration0 + D with start
\* and offset unchanged, and for a non-image asset the new duration lies in
\* [0.2, assetDuration - offset0].
C11_TrimEnd ==
  [][\A x \in PointerXs :
       TrimEndStep(x) =>
         LET before == clipFind(clips, dragState.clipId)
             after == clipFind(clips', dragState.clipId)
             isImage == IsImageAsset(assets, before.assetId)
             assetDuration == dragAssetDuration(before)
             d == TimeOf(x - dragState.startX, pixelsPerSecond)
             minD == MIN_CLIP_DURATION - dragState.startDuration
             maxD == IF isImage THEN TrimEndImageCeiling - dragState.startDuration
                     ELSE assetDuration - dragState.startOffset - dragState.startDuration
         IN  /\ after.duration = dragState.startDuration + Clamped(d, minD, maxD)
             /\ after.start = before.start /\ after.offset = before.offset
             /\ ~isImage =>
                  /\ after.duration >= MIN_CLIP_DURATION
                  /\ after.duration <= assetDuration - dragState.startOffset]_vars

\* a pointer move at x while a move drag of an existing clip is active
MoveStep(x) ==
  /\ handlePointerMove(x)
  /\ dragState.mode = "move"
  /\ HasClip(clips, dragState.clipId)

\* C12: a move drag with time displacement dt, the pointer displacement
\* divided by the current pixels per second, sets the clip's start to
\* max(0, start0 + dt) with start0 captured at drag start, and leaves the
\* clip's offset, duration, gain, track and asset unchanged.
C12_MoveDrag ==
  [][\A x \in PointerXs :
       MoveStep(x) =>
         LET before == clipFind(clips, dragState.clipId)
             after == clipFind(clips', dragState.clipId)
             dt == TimeOf(x - dragState.startX, pixelsPerSecond)
         IN  /\ after.start = IF dragState.startStart + dt < 0 THEN 0
                              ELSE dragState.startStart + dt
             /\ after = [before EXCEPT !.start = after.start]]_vars

\* C12 witness: at a zoom of 30 px/s a move drag of a clip captured at start
\* 3 s stopped at 0 after a pointer displacement worth -10 s.
C12_Witness ==
  /\ lastOp.name = "pointerMove"
  /\ dragState.mode = "move" /\ dragState.startStart = 30
  /\ pixelsPerSecond = RInt(30)
  /\ HasClip(clips, dragState.clipId)
  /\ clipFind(clips, dragState.clipId).start = 0

\* the position of the clip an operation addressed to id acts on
firstIndexOf(id) ==
  CHOOSE i \in 1..Len(clips) : clips[i].id = id /\ \A j \in 1..(i - 1) : clips[j].id # id
\* every entry of the clip list but the one at position t is unchanged
OthersKept(t) ==
  /\ Len(clips') >= Len(clips)
  /\ \A j \in 1..Len(clips) : j # t => clips'[j] = clips[j]
\* the clip list without the entry at position t
WithoutIndex(t) == SubSeq(clips, 1, t - 1) \o SubSeq(clips, t + 1, Len(clips))

\* C13: move, trim-start, trim-end, split, inspector edit and delete applied
\* to one clip leave every field of every other clip unchanged; delete removes
\* the one clip only.
C13_OtherClipsUnchanged ==
  [][/\ \A x \in {-540, 360} :
          (handlePointerMove(x) /\ dragState # NoDrag /\ HasClip(clips, dragState.clipId))
          => Len(clips') = Len(clips) /\ OthersKept(firstIndexOf(dragState.clipId))
     /\ \A f \in InspectorFields :
          (InspectorEdit(f, 20) /\ selectedClipPresent)
          => Len(clips') = Len(clips) /\ OthersKept(firstIndexOf(selectedClipId))
     /\ (handleSplitClip /\ selectedClipPresent /\ clips' # clips)
          => Len(clips') = Len(clips) + 1 /\ OthersKept(firstIndexOf(selectedClipId))
     /\ (handleDeleteClip /\ selectedClipPresent)
          => clips' = WithoutIndex(firstIndexOf(selectedClipId))]_vars

\* C14: the drag state machine is idle -> dragging(mode) -> idle: a pointer-up
\* or a pointer-cancel returns every dragging state to idle, also when the
\* dragged clip was deleted during the drag, and a pointer move received while
\* the dragged clip no longer exists changes no clip.
C14_DragEnds ==
  [][/\ handlePointerUp => dragState' = NoDrag
     /\ handlePointerCancel => dragState' = NoDrag
     /\ \A x \in PointerXs :
          (handlePointerMove(x) /\ dragState # NoDrag /\ ~HasClip(clips, dragState.clipId))
          => clips' = clips]_vars

\* C15: in every reachable state the stored playhead satisfies
\* 0 <= playhead <= timelineDuration, with timelineDuration the greater of
\* 12 s and the latest clip end.
C15_PlayheadInRange ==
  /\ 0 <= playhead
  /\ playhead <= Max(EMPTY_TIMELINE_DURATION,
                     SeqMax([i \in 1..Len(clips) |-> clips[i].start + clips[i].duration], 0))

\* C16: while isPlaying holds, fair clock ticks with positive elapsed time
\* lead to playhead = timelineDuration and isPlaying = false: a tick advances
\* the playhead while playback goes on, ends playback only at the end of the
\* timeline, never puts the playhead back to 0, and once only ticks remain
\* playback does not go on forever.
C16_ClockStops ==
  /\ [][Step => /\ playhead' > 0
                /\ isPlaying' => playhead' > playhead
                /\ ~isPlaying' => playhead' = timelineDuration]_vars
  /\ (<>[][Step]_vars => <>[](~isPlaying))

\* C16 witness: a clock tick has stopped playback at the end of the timeline.
C16_Witness ==
  /\ lastOp.name = "step"
  /\ ~isPlaying
  /\ playhead = timelineDuration

\* the clip list in another order
Reordered(p) == [i \in 1..Len(clips) |-> clips[p[i]]]
visualCover ==
  {c \in Clips : /\ \E t \in Range(tracks) : t.id = c.trackId /\ t.type = "video"
                 /\ c.start <= effectivePlayhead
                 /\ effectivePlayhead < c.start + c.duration}
positionOf(trackId) == CHOOSE i \in 1..Len(tracks) : tracks[i].id = trackId

\* C17: the active visual clip is a clip on a video track covering the
\* playhead whose track has the greatest position among such clips, none when
\* there is no such clip; when several clips cover the playhead the choice
\* follows from the track order and not from the order of the clip list.
C17_ActiveVisualClip ==
  /\ visualCover = {} <=> activeVisualClip = NoClip
  /\ visualCover # {} =>
       /\ activeVisualClip \in visualCover
       /\ \A c \in visualCover :
            positionOf(c.trackId) <= positionOf(activeVisualClip.trackId)
  /\ \A p \in Permutations(1..Len(clips)) :
       activeVisualClipOf(Reordered(p), tracks, effectivePlayhead) = activeVisualClip

\* C18: after every audio reconciliation every active audio clip, a companion
\* clip included, has a cached audio element under its clip id whose volume
\* is the clip's gain and which plays exactly when isPlaying
C18_AudioHandles ==
  \A i \in 1..Len(activeAudioClips) :
    LET clip == activeAudioClips[i]
    IN  /\ clip.id \in DOMAIN audioElements
        /\ audioElements[clip.id].volume = clip.gain
        /\ audioElements[clip.id].playing = isPlaying

ZoomRangeOk(r) == RLt(r.min, r.max) /\ RLe(<<8, 1>>, r.min) /\ RLe(r.max, <<640, 1>>)
EmptyZoomRange == [min |-> <<40, 1>>, max |-> <<160, 1>>]

\* clip lists counted in milliseconds: durations from 1 ms to 10 s, starts up
\* to ten minutes
FineUnit == 100 * TicksPerSecond
FineClips == {[start |-> st, duration |-> d] :
                st \in {0, 600000}, d \in {0, 1, 16, 17, 100, 500, 10000}}
FineClipLists == {<<a>> : a \in FineClips} \cup {<<a, b>> : a, b \in FineClips}
FineRangesOk ==
  /\ \A cs \in FineClipLists : ZoomRangeOk(getTimelineZoomRangeIn(cs, FineUnit))
  /\ getTimelineZoomRangeIn(<<>>, FineUnit) = EmptyZoomRange

\* C19: the zoom range derived from any clip list has min < max, 8 <= min
\* and max <= 640, and the empty list gives {min: 40, max: 160}; for the
\* clip list of every reachable state and for the clip lists in milliseconds
C19_ZoomRange ==
  /\ ZoomRangeOk(getTimelineZoomRange(clips))
  /\ clips = <<>> => getTimelineZoomRange(clips) = EmptyZoomRange
  /\ FineRangesOk
\* a clip shorter than 0.2 s in a timeline longer than one hour
C19_Witness ==
  /\ \E c \in Clips : c.duration < 2 /\ c.duration > 0
  /\ \E c \in Clips : c.start >= 36000

PpsInRange(pps, r) == RLe(r.min, pps) /\ RLe(pps, r.max)

\* C20: after every change of the clips and of the zoom slider
\* pixelsPerSecond lies in the zoom range derived from the clips
C20_ZoomInRange == PpsInRange(pixelsPerSecond, getTimelineZoomRange(clips))
\* the slider had set a zoom below 40 and the delete of the last clip moved it
\* to the minimum of the empty range
C20_Witness ==
  lastOp.name = "deleteClip" /\ clips = <<>> /\ pixelsPerSecond = <<40, 1>>

projectVars == <<assets, tracks, clips, selectedClipId, playhead, isPlaying,
                 pixelsPerSecond, dragState, audioElements>>
FileIsInvalid(f) ==
  f.kind # "nebulacut.project" \/ f.version # 1 \/ f.malformed # {}

\* C21: the load of a file whose kind or version does not match, or that has
\* any field of the wrong type (selectedClipId, playhead, pixelsPerSecond and
\* savedAt included), is rejected as invalid and leaves the project unchanged
C21_LoadRejects ==
  [][\A f \in ParseFiles :
       (loadProjectContent(f) /\ FileIsInvalid(f)) =>
         (UNCHANGED projectVars /\ statusMessage' = "project.notice.invalidFile")]_vars

\* a load of a structurally valid file
LoadStep(f) == loadProjectContent(f) /\ parseAccepts(f)
loadedTrackIds == {tracks'[i].id : i \in 1..Len(tracks')}
loadedAssetIds == {assets'[i].id : i \in 1..Len(assets')}

\* C22 as stated: the load drops exactly the clips whose track or asset is
\* not loaded or whose duration is below 0.2 s
C22_LoadFilterAsStated ==
  [][\A f \in LoadFiles :
       LoadStep(f) =>
         clips' = SelectSeq(f.clips, LAMBDA c : /\ c.trackId \in loadedTrackIds
                                                /\ c.assetId \in loadedAssetIds
                                                /\ c.duration >= 2)]_vars

\* C22: the load drops exactly the clips whose track or asset is not loaded,
\* whose duration is below 0.2 s, or whose start or offset is negative; the
\* other clips of the file survive unchanged and in their order
C22_LoadFilter ==
  [][\A f \in LoadFiles :
       LoadStep(f) =>
         clips' = SelectSeq(f.clips, LAMBDA c : /\ c.trackId \in loadedTrackIds
                                                /\ c.assetId \in loadedAssetIds
                                                /\ c.duration >= 2
                                                /\ c.start >= 0
                                                /\ c.offset >= 0)]_vars
\* the external file was loaded: of its seven clips the two with loaded
\* references, non-negative start and offset and 5 s duration are left
C22_Witness ==
  /\ lastOp.name = "load"
  /\ [i \in 1..Len(clips) |-> clips[i].id] = <<31, 32>>
  /\ clips[2].gain = 200

\* C23: after the load of a structurally valid file every clip has
\* duration >= 0.2 s, start >= 0, gain in [0, 1.5] and, unless its asset is
\* an image, offset >= 0 and offset + duration within the asset's duration
C23_LoadedClipsValid ==
  [][\A f \in LoadFiles :
       LoadStep(f) =>
         \A i \in 1..Len(clips') :
           LET c == clips'[i]
           IN  /\ c.duration >= 2
               /\ c.start >= 0
               /\ c.gain >= 0 /\ c.gain <= 150
               /\ (HasAsset(assets', c.assetId) /\ ~IsImageAsset(assets', c.assetId)) =>
                     /\ c.offset >= 0
                     /\ c.offset + c.duration <= assetMapGet(assets', c.assetId).duration]_vars

\* the data-model invariants of the clips in memory
DataModelOk ==
  \A c \in Clips :
    /\ c.duration >= 2 /\ c.start >= 0 /\ c.gain >= 0 /\ c.gain <= 150
    /\ HasTrack(tracks, c.trackId) /\ HasAsset(assets, c.assetId)
    /\ ~IsImageAsset(assets, c.assetId) =>
          /\ c.offset >= 0
          /\ c.offset + c.duration <= assetMapGet(assets, c.assetId).duration
IdsAndKinds(as) == [i \in 1..Len(as) |-> <<as[i].id, as[i].type>>]
\* the project file holds the tracks, clips and assets that are in memory
SavedFromHere ==
  /\ projectFile.kind = "nebulacut.project" /\ projectFile.version = 1
  /\ projectFile.tracks = tracks
  /\ projectFile.clips = clips
  /\ IdsAndKinds(projectFile.assets) = IdsAndKinds(assets)

\* C24: a save writes the tracks, the clips and the ids and kinds of the
\* assets as they are in memory, and opening the saved file from a state
\* that satisfies the data-model invariants yields the same track list, the
\* same clip list and the same asset ids and kinds
C24_RoundTrip ==
  /\ [][handleSaveProject => SavedFromHere']_vars
  /\ [][(handleOpenProject /\ SavedFromHere /\ DataModelOk) =>
          /\ tracks' = tracks
          /\ clips' = clips
          /\ IdsAndKinds(assets') = IdsAndKinds(assets)]_vars
\* a project of two clips, one of them with an edited gain, was saved and
\* opened again
C24_Witness ==
  /\ lastOp.name = "load"
  /\ SavedFromHere /\ DataModelOk
  /\ Len(clips) = 2
  /\ \E c \in Clips : c.gain = 20

LoadErrors == {"project.notice.invalidFile", "errors.mediaMetaLoad"}
\* C25: when an asset of a load fails to decode, no object URL created by the
\* load stays live, the status line reports the failure and the assets,
\* tracks, clips, selection, playhead, zoom, isPlaying and audio elements
\* are left as they are; the steps of the load before the replace leave
\* them as they are too
C25_FailedLoad ==
  /\ [][(loadAsset /\ nextAssetFails) =>
          /\ projectVars' = projectVars
          /\ loadJob'.urls = {} /\ ~loadJob'.active
          /\ statusMessage' \in LoadErrors]_vars
  /\ [][((loadAsset \/ LoadBeginOf(DecodeFiles))
           /\ statusMessage' # "project.notice.loaded") =>
          projectVars' = projectVars]_vars
\* the second asset of a load failed to decode while a loaded project with
\* clips was playing
C25_Witness ==
  /\ lastOp.name = "loadFailed"
  /\ statusMessage = "errors.mediaMetaLoad"
  /\ ~loadJob.active
  /\ clips # <<>> /\ isPlaying

ClipIdsOf(cs) == {cs[i].id : i \in 1..Len(cs)}
SelectionOk == selectedClipId = 0 \/ selectedClipId \in ClipIdsOf(clips)
\* C26: selectedClipId is none or the id of a clip of the list in every
\* state; a delete of the selected clip clears it and removes the clip, a
\* split and an insert that add a clip select a clip that is new in the
\* list, a drag start selects a clip of the list, and a load keeps the
\* selection of the file when that clip survives and clears it otherwise
C26_SelectionExists ==
  /\ []SelectionOk
  /\ [][(handleDeleteClip /\ selectedClipId # 0) =>
          selectedClipId' = 0 /\ selectedClipId \notin ClipIdsOf(clips')]_vars
  /\ [][((handleSplitClip \/ AddClip) /\ Len(clips') > Len(clips)) =>
          selectedClipId' \in ClipIdsOf(clips') \ ClipIdsOf(clips)]_vars
  /\ [][SelectDrag => selectedClipId' \in ClipIdsOf(clips')]_vars
  /\ [][\A f \in SelectFiles :
         LoadStep(f) =>
           selectedClipId' = IF f.selectedClipId \in ClipIdsOf(clips')
                             THEN f.selectedClipId ELSE 0]_vars
\* the file whose selected clip starts before zero was loaded: clips are in
\* the list and none is selected
C26_Witness ==
  /\ lastOp.name = "load"
  /\ ExternalFile.selectedClipId \notin ClipIdsOf(clips)
  /\ clips # <<>> /\ selectedClipId = 0

\* C27: while isPlaying holds every clock tick leaves the playhead greater
\* than or equal to its value before the tick, also after clips were deleted
\* or shortened since the playhead was last set
C27_ClockMonotonic == [][Step => playhead' >= playhead]_vars

TracksReordered(p) == [i \in 1..Len(tracks) |-> tracks[p[i]]]
\* C28: the active audio clips are exactly the clips on an audio track whose
\* asset is audio or a video with an embedded audio track and for which
\* start <= playhead < start + duration, however many they are, and the
\* order of the track list plays no role
C28_ActiveAudio ==
  /\ Range(activeAudioClips) =
       {c \in Clips :
          /\ \E t \in Range(tracks) : t.id = c.trackId /\ t.type = "audio"
          /\ \E a \in Range(assets) :
                /\ a.id = c.assetId
                /\ a.type = "audio" \/ (a.type = "video" /\ a.hasAudioTrack)
          /\ c.start <= playhead /\ playhead < c.start + c.duration}
  /\ \A p \in Permutations(1..Len(tracks)) :
       activeAudioClipsOf(clips, TracksReordered(p), assets, effectivePlayhead)
         = activeAudioClips
\* two clips are active at once while a clip of a video without sound lies
\* on an audio track under the playhead
C28_Witness ==
  /\ Len(activeAudioClips) = 2
  /\ \E c \in Clips : /\ c \notin Range(activeAudioClips)
                       /\ coversPlayhead(c, playhead)
                       /\ \E t \in Range(tracks) : t.id = c.trackId /\ t.type = "audio"

activeAudioIds == {activeAudioClips[i].id : i \in 1..Len(activeAudioClips)}
\* C29: after every audio reconciliation every cached audio element whose
\* clip is not active, because the playhead is outside the clip or the clip
\* was deleted, is paused; and an element leaves the cache only when a load
\* replaces the project, never when its clip is deactivated or deleted
C29_InactivePaused ==
  /\ [](\A id \in DOMAIN audioElements :
          id \notin activeAudioIds => ~audioElements[id].playing)
  /\ [][(DOMAIN audioElements \ DOMAIN audioElements' # {}) =>
          \E f \in ActiveFiles : LoadStep(f)]_vars
\* playback goes on while the cache holds the paused element of a deleted
\* clip
C29_Witness ==
  /\ isPlaying
  /\ \E id \in DOMAIN audioElements :
       id \notin ClipIdsOf(clips) /\ ~audioElements[id].playing

ElementsOf(cache) == {cache[id].element : id \in DOMAIN cache}
\* C30: the cache holds one audio element per clip id and no element under
\* two ids, and as long as no load replaces the project the element cached
\* for a clip id stays the same object, also when the clip is deactivated
\* and activated again
C30_OneHandle ==
  /\ [](Cardinality(ElementsOf(audioElements)) = Cardinality(DOMAIN audioElements))
  /\ [][~(\E f \in ActiveFiles : LoadStep(f)) =>
          \A id \in DOMAIN audioElements :
            /\ id \in DOMAIN audioElements'
            /\ audioElements'[id].element = audioElements[id].element]_vars
\* the element of a clip plays again after it was paused because the
\* playhead had left the clip, next to the element of another clip
C30_Witness ==
  /\ lastOp.name = "scrub"
  /\ Cardinality(DOMAIN audioElements) = 2
  /\ \E id \in DOMAIN audioElements :
       audioElements[id].playing /\ audioElements[id].element = 1

AllAtLeastMin(cs) == Len(cs) > 0 /\ \A i \in 1..Len(cs) : cs[i].duration >= MIN_CLIP_DURATION
shortestOf(cs) ==
  CHOOSE d \in {cs[i].duration : i \in 1..Len(cs)} :
    \A i \in 1..Len(cs) : d <= cs[i].duration
\* max * shortest >= px, with the durations counted in 1/unit second
MaxGivesWidth(cs, unit, px) ==
  RLe(Rat(px * unit, shortestOf(cs)), getTimelineZoomRangeIn(cs, unit).max)
MaxGivesWidthOrCeiling(cs, unit, px) ==
  RLe(RMin(Rat(px * unit, shortestOf(cs)), RInt(TIMELINE_ZOOM_HARD_MAX)),
      getTimelineZoomRangeIn(cs, unit).max)
FineLongClipLists ==
  {cs \in FineClipLists : \A i \in 1..Len(cs) : cs[i].duration >= 200}

\* C34 as stated: for every clip set that is not empty and whose clips all
\* last 0.2 s or more, the maximum of the zoom range times the shortest
\* duration is at least 320
C34_ShortestClip320 ==
  AllAtLeastMin(clips) => MaxGivesWidth(clips, TicksPerSecond, 320)

\* C34: for every such clip set the maximum of the zoom range times the
\* shortest duration is at least 320 when the shortest clip lasts 0.5 s or
\* more, and the maximum is 640 otherwise; for the clip list of every
\* reachable state and for the clip lists in milliseconds
C34_ShortestClipWidth ==
  /\ AllAtLeastMin(clips) => MaxGivesWidthOrCeiling(clips, TicksPerSecond, 320)
  /\ \A cs \in FineLongClipLists : MaxGivesWidthOrCeiling(cs, FineUnit, 320)
\* a clip of 1 s is the shortest: at the maximum zoom it is 320 px wide
C34_Witness ==
  /\ AllAtLeastMin(clips)
  /\ shortestOf(clips) = TicksPerSecond
  /\ getTimelineZoomRange(clips).max = <<320, 1>>

\* C35: after a load the zoom is the stored pixelsPerSecond clamped once into
\* the zoom range of the clips that survived the load, so that the dropped
\* clips have no influence on it
C35_ZoomFromSurvivors ==
  [][\A f \in ReloadFiles :
       LoadStep(f) =>
         pixelsPerSecond' = RClamp(f.pixelsPerSecond,
                                   getTimelineZoomRange(clips').min,
                                   getTimelineZoomRange(clips').max)]_vars

\* C39: in every reachable state, also after the load of a file written
\* outside the application, no two clips of the clip list share an id
C39_ClipIdsUnique ==
  \A i, j \in 1..Len(clips) : clips[i].id = clips[j].id => i = j

GeometryOf(c) == <<c.start, c.offset, c.duration>>
draggedClip == clipFind(clips, dragState.clipId)
\* the dragged clip with the geometry it had when the drag started
snapshotClip ==
  [draggedClip EXCEPT !.start = dragState.startStart,
                      !.offset = dragState.startOffset,
                      !.duration = dragState.startDuration]
\* the drag started on a clip that satisfied the data-model invariants
SnapshotValid ==
  /\ dragState # NoDrag /\ HasClip(clips, dragState.clipId)
  /\ dragState.startDuration >= MIN_CLIP_DURATION /\ dragState.startStart >= 0
  /\ HasAsset(assets, draggedClip.assetId)
  /\ ~IsImageAsset(assets, draggedClip.assetId) =>
        /\ dragState.startOffset >= 0
        /\ dragState.startOffset + dragState.startDuration
             <= assetMapGet(assets, draggedClip.assetId).duration

\* C40: during a drag on a clip that satisfied the data-model invariants the
\* geometry of the clip after a pointer move is the one the same move gives
\* on the clip as it was at the start of the drag, at the current zoom, and
\* a pointer move to the x of the drag start gives the clip its start, offset
\* and duration of the start of the drag, also after the zoom has changed
C40_DragFromSnapshot ==
  [][\A x \in PointerXs :
       (handlePointerMove(x) /\ SnapshotValid) =>
         /\ GeometryOf(clipFind(clips', dragState.clipId)) =
              GeometryOf(patchClip(snapshotClip,
                                   dragPatch(dragState, snapshotClip,
                                             TimeOf(x - dragState.startX,
                                                    pixelsPerSecond))))
         /\ x = dragState.startX =>
              GeometryOf(clipFind(clips', dragState.clipId)) =
                <<dragState.startStart, dragState.startOffset,
                  dragState.startDuration>>]_vars
\* a pointer move has put a trimmed clip back to the geometry of the start
\* of the drag at a zoom other than the one the drag started at
C40_Witness ==
  /\ lastOp.name = "pointerMove"
  /\ SnapshotValid
  /\ dragState.mode # "move"
  /\ GeometryOf(draggedClip) = GeometryOf(snapshotClip)
  /\ pixelsPerSecond # <<75, 1>>

(* ------------------------------ imports -------------------------------- *)
\* the fetch requests of the remote import in flight: at most two, the first
\* without a preference, the second with the WebM preference and only after
\* the first answer failed to decode, and the answer to a request with the
\* WebM preference is the WebM file of the source
FetchesOk ==
  LET fs == importJob.fetches
  IN  /\ Len(fs) <= 2
      /\ \A i \in 1..Len(fs) :
           /\ fs[i].preferWebM = (i = 2)
           /\ fs[i].preferWebM =>
                /\ fs[i].fileName = importJob.source.webm
                /\ fs[i].mimeType = "webm"
      /\ Len(fs) = 2 => ~decodes([media |-> fs[1].fileName])
remoteStep == RemoteFetch \/ remoteDecode
\* C36: one remote import makes at most two fetch requests, the second only
\* after the first succeeded and its result failed to decode, asking for the
\* alternate format, which the fetch handler then serves; a failed fetch ends
\* the import; the asset list gains at most one asset, with the end of the
\* import
C36_RemoteImport ==
  /\ []FetchesOk
  /\ [][remoteStep =>
          /\ remoteFetch(FALSE) => importJob'.kind = "none"
          /\ \/ assets' = assets
             \/ /\ Len(assets') = Len(assets) + 1
                /\ importJob'.kind = "none"]_vars

\* an import is in flight and the last change of the project was the replace
\* of a finished load
importOutlivedLoad == importJob.kind # "none" /\ lastOp.name = "load"
\* C37: when an import that was in flight while a load replaced the project
\* completes, the asset list stays the one of the loaded snapshot
C37_ImportDiscarded ==
  [][(importOutlivedLoad /\ importJob'.kind = "none") => assets' = assets]_vars

\* C38: while no import and no load is in progress every object URL that was
\* created is owned by an asset of the list or revoked, and a batch with a
\* file that fails to decode adds nothing to the asset list
C38_HandlesOwned ==
  /\ [](importJob.kind = "none" /\ ~loadJob.active =>
          /\ importJob.leaked = {} /\ importJob.urls = {}
          /\ loadJob.urls = {} /\ loadJob.stale = {})
  /\ [][(importFile /\ statusMessage' = "errors.mediaMetaLoad") =>
          assets' = assets]_vars

(* ---------------------------- video output ----------------------------- *)
targetTime == activeVisualClip.offset + (effectivePlayhead - activeVisualClip.start)
ReplaceStep == \E f \in VideoFiles : LoadStep(f)
C32_VideoOwner ==
  /\ isVideoClip(assets, activeVisualClip) => video.owner = activeVisualClip.id
  /\ (activeVisualClip = NoClip \/ IsImageAsset(assets, activeVisualClip.assetId)) =>
       video.owner = 0 /\ video.src = 0
\* the playhead left a video clip whose metadata never arrived for an image
\* clip
C32_Witness ==
  /\ IsImageAsset(assets, activeVisualClip.assetId)
  /\ video.owner = 0 /\ video.src = 0 /\ video.pending # <<>>

\* C33: when the active visual clip changes to a video clip its target time
\* is latched and the source loads anew; while the output has not reported
\* metadata its currentTime is not written; the metadata event writes the
\* latched time once and empties the latch
C33_DeferredSeek ==
  /\ [][(video'.owner # video.owner /\ video'.owner # 0) =>
          video'.pending = <<targetTime'>> /\ ~video'.ready /\ video'.time = 0]_vars
  /\ [][(video.owner # 0 /\ video'.owner = video.owner
           /\ ~video.ready /\ ~video'.ready) =>
          video'.time = video.time]_vars
  /\ [][(handleLoadedMetadata /\ video.pending # <<>>) =>
          video'.time = video.pending[1] /\ video'.pending = <<>>]_vars

====
